---- MODULE Spec2Model ----
(***************************************************************************)
(* RefBib workspace: the client-side deduplication and conflict-resolution *)
(* engine of frontend/src/hooks/use-workspace.ts and the text utilities of *)
(* frontend/src/lib/text-utils.ts.                                         *)
(*                                                                         *)
(* A JavaScript string is a sequence of one-character strings; the value   *)
(* null of a `string | null` field is the one-element sequence `null`,     *)
(* which no string of characters equals.                                   *)
(***************************************************************************)
EXTENDS Integers, Sequences, FiniteSets, TLC

\* ------------------------------------------------------------------------
\* Bounds of the model
\* ------------------------------------------------------------------------
MaxOps == 3
MaxBatch == 2
MaxHookOps == 2
MaxClicks == 4

\* ------------------------------------------------------------------------
\* Program constants (use-workspace.ts:18-25). The two thresholds are the
\* numerators of AUTO_MERGE_THRESHOLD = 0.95 and CONFLICT_THRESHOLD = 0.88
\* over ThresholdScale.
\* ------------------------------------------------------------------------
ThresholdScale == 100
AUTO_MERGE_THRESHOLD == 95
CONFLICT_THRESHOLD == 88
DEFAULT_WORKSPACE_ID == "default"
STORE_VERSION == 2
WORKSPACE_STORAGE_KEY == "refbib:workspace-v2"
LEGACY_WORKSPACE_STORAGE_KEY == "refbib:workspace-v1"
\* One tick of the model's clock is six hours: DISCOVERY_CACHE_TTL_MS is
\* 24 * 60 * 60 * 1000 ms, four ticks.
DISCOVERY_CACHE_TTL_MS == 4

\* ------------------------------------------------------------------------
\* JavaScript values
\* ------------------------------------------------------------------------
null == <<"null">>
NoYear == -1
NoId == 0
NotFound == 0

\* `!value` is false: the string is neither null nor empty.
Truthy(value) == value # null /\ value # <<>>

UpperChars ==
  <<"A","B","C","D","E","F","G","H","I","J","K","L","M",
    "N","O","P","Q","R","S","T","U","V","W","X","Y","Z">>
LowerChars ==
  <<"a","b","c","d","e","f","g","h","i","j","k","l","m",
    "n","o","p","q","r","s","t","u","v","w","x","y","z">>
DigitChars == <<"0","1","2","3","4","5","6","7","8","9">>
Whitespace == {" "}

Range(s) == {s[i] : i \in 1..Len(s)}

toLowerCase(s) ==
  [i \in 1..Len(s) |->
     IF \E k \in 1..26 : UpperChars[k] = s[i]
       THEN LowerChars[CHOOSE k \in 1..26 : UpperChars[k] = s[i]]
       ELSE s[i]]

\* String.prototype.trim
trim(s) ==
  LET keep == {i \in 1..Len(s) : s[i] \notin Whitespace}
  IN  IF keep = {} THEN <<>>
      ELSE SubSeq(s, CHOOSE i \in keep : \A j \in keep : i <= j,
                     CHOOSE i \in keep : \A j \in keep : i >= j)

\* .replace(/\s+/g, " "): the first i characters with each run of whitespace
\* replaced by one space
RECURSIVE collapsePrefix(_, _)
collapsePrefix(s, i) ==
  IF i = 0 THEN <<>>
  ELSE IF s[i] \in Whitespace
         THEN IF i > 1 /\ s[i-1] \in Whitespace
                THEN collapsePrefix(s, i - 1)
                ELSE Append(collapsePrefix(s, i - 1), " ")
         ELSE Append(collapsePrefix(s, i - 1), s[i])

collapseWhitespace(s) == collapsePrefix(s, Len(s))

\* .replace(/\s/g, "")
stripWhitespace(s) == SelectSeq(s, LAMBDA c : c \notin Whitespace)

\* .replace(/[^a-z0-9\s]/g, " ")
replaceNonAlphanumeric(s) ==
  [i \in 1..Len(s) |->
     IF s[i] \in Range(LowerChars) \cup Range(DigitChars) \cup Whitespace
       THEN s[i] ELSE " "]

\* text-utils.ts normalizeText
normalizeText(value) ==
  IF ~Truthy(value) THEN <<>>
  ELSE trim(collapseWhitespace(replaceNonAlphanumeric(toLowerCase(value))))

\* the contiguous two-character substrings of a string
bigramsOf(normalized) ==
  IF Len(normalized) < 2 THEN {}
  ELSE {<<normalized[i], normalized[i+1]>> : i \in 1..(Len(normalized) - 1)}

\* text-utils.ts buildBigrams
buildBigrams(value) == bigramsOf(stripWhitespace(normalizeText(value)))

\* A similarity score is the fraction n/d, kept exact.
ZeroScore == [n |-> 0, d |-> 1]
ScoreGreater(x, y) == x.n * y.d > y.n * x.d
ScoreAtLeast(x, threshold) == x.n * ThresholdScale >= threshold * x.d

\* Dice coefficient of two bigram sets, 0 when either is empty
dice(gramsA, gramsB) ==
  IF gramsA = {} \/ gramsB = {} THEN ZeroScore
  ELSE [n |-> 2 * Cardinality(gramsA \cap gramsB),
        d |-> Cardinality(gramsA) + Cardinality(gramsB)]

\* text-utils.ts titleSimilarity
titleSimilarity(a, b) ==
  IF ~Truthy(a) \/ ~Truthy(b) THEN ZeroScore
  ELSE dice(buildBigrams(a), buildBigrams(b))

\* ------------------------------------------------------------------------
\* Fingerprint builder (use-workspace.ts:45-76)
\* ------------------------------------------------------------------------
HasPrefix(s, p) == Len(s) >= Len(p) /\ SubSeq(s, 1, Len(p)) = p
DropPrefix(s, p) == SubSeq(s, Len(p) + 1, Len(s))

\* The strings /^https?:\/\/(dx\.)?doi\.org\// matches at the start
DoiUrlPrefixes ==
  { <<"h","t","t","p">> \o s \o <<":","/","/">> \o dx
      \o <<"d","o","i",".","o","r","g","/">> :
      s \in {<<>>, <<"s">>}, dx \in {<<>>, <<"d","x",".">>} }

\* .replace(/^https?:\/\/(dx\.)?doi\.org\//, "")
stripDoiUrl(s) ==
  IF \E p \in DoiUrlPrefixes : HasPrefix(s, p)
    THEN DropPrefix(s, CHOOSE p \in DoiUrlPrefixes : HasPrefix(s, p))
    ELSE s

\* a string without its leading whitespace
trimStart(s) ==
  LET keep == {i \in 1..Len(s) : s[i] \notin Whitespace}
  IN  IF keep = {} THEN <<>>
      ELSE SubSeq(s, CHOOSE i \in keep : \A j \in keep : i <= j, Len(s))

\* .replace(/^doi:\s*/, "")
stripDoiScheme(s) ==
  IF HasPrefix(s, <<"d","o","i",":">>)
    THEN trimStart(DropPrefix(s, <<"d","o","i",":">>))
    ELSE s

\* a variant that keeps the case of the DOI
normalizeDoiKeepingCase(value) ==
  IF ~Truthy(value) THEN null
  ELSE stripDoiScheme(stripDoiUrl(trim(value)))

normalizeDoi(value) ==
  IF ~Truthy(value) THEN null
  ELSE stripDoiScheme(stripDoiUrl(toLowerCase(trim(value))))

\* first.split(" ").filter(Boolean)[0] ?? ""
firstToken(first) ==
  LET spaces == {i \in 1..Len(first) : first[i] = " "}
  IN  IF spaces = {} THEN first
      ELSE SubSeq(first, 1, (CHOOSE i \in spaces : \A j \in spaces : i <= j) - 1)

extractFirstAuthor(authors) ==
  IF Len(authors) = 0 THEN <<>> ELSE firstToken(normalizeText(authors[1]))

\* `${year}` for a non-negative integer
RECURSIVE numberToString(_)
numberToString(n) ==
  IF n < 10 THEN <<DigitChars[n + 1]>>
  ELSE numberToString(n \div 10) \o <<DigitChars[(n % 10) + 1]>>

\* reference.year ?? "na"
yearOrNa(year) == IF year = NoYear THEN <<"n","a">> ELSE numberToString(year)

titleFingerprint(normalizedTitle, reference) ==
  IF normalizedTitle = <<>> THEN <<>>
  ELSE <<"t","i","t","l","e",":">> \o normalizedTitle
         \o <<"|","y","e","a","r",":">> \o yearOrNa(reference.year)
         \o <<"|","a","u","t","h","o","r",":">> \o extractFirstAuthor(reference.authors)

fingerprintWithDoi(doi, reference) ==
  IF Truthy(doi) THEN <<"d","o","i",":">> \o doi
  ELSE titleFingerprint(normalizeText(reference.title), reference)

exactFingerprint(reference) ==
  fingerprintWithDoi(normalizeDoi(reference.doi), reference)

\* ------------------------------------------------------------------------
\* References the documents of the model contain. A scenario is the set of
\* references that exist in one run; Init picks one scenario.
\* ------------------------------------------------------------------------
TitleA == <<"a","b","c","d","e">>
TitleAPunct == <<"A","b","c","d","e",".">>
TitleNear == <<"a","b","c","d","e","f">>
TitleNear2 == <<"a","b","c","d","e","f","g">>
TitleSpaced == <<"a","b"," ","c","d","e">>
TitleFar == <<"x","y","z">>
TitlePunct == <<".">>
TitleLong == <<"a","b","c","d","e","f","g","h","i","j","k">>
TitleLonger == <<"a","b","c","d","e","f","g","h","i","j","k","l">>
TitleLongest == <<"a","b","c","d","e","f","g","h","i","j","k","l","m">>
TitleTieFirst == <<"a","b","c","d","e","f","g","h","i">>
TitleTieSecond == <<"b","c","d","e","f","g","h","i","j">>
TitleTieBoth == <<"a","b","c","d","e","f","g","h","i","j">>
DoiA == <<"1","0","/","a">>
DoiAUpper == <<"D","O","I",":"," ","1","0","/","A">>
DoiAUrl == <<"h","t","t","p","s",":","/","/","d","o","i",".","o","r","g","/","1","0","/","a">>
DoiB == <<"1","0","/","b">>
DoiBlank == <<" ">>
AuthorDoe == << <<"D","o","e",","," ","J",".">> >>
Bib == <<"@">>

MkRef(index, title, year, doi, bibtex, match_status) ==
  [index |-> index, title |-> title, authors |-> AuthorDoe, year |-> year,
   doi |-> doi, bibtex |-> bibtex, match_status |-> match_status,
   raw_citation |-> IF title = null THEN <<>> ELSE title \o <<".">>]

RefA == MkRef(1, TitleA, 2024, null, Bib, "matched")
RefAPunct == MkRef(2, TitleAPunct, 2024, null, Bib, "matched")
RefNear == MkRef(1, TitleNear, 2024, null, Bib, "fuzzy")
RefNear2 == MkRef(2, TitleNear2, 2024, null, Bib, "unmatched")
RefSpaced == MkRef(2, TitleSpaced, 2024, null, Bib, "matched")
RefFar == MkRef(3, TitleFar, NoYear, null, Bib, "matched")
RefNoTitle == MkRef(3, null, 2024, null, Bib, "unmatched")
RefPunctTitle == MkRef(1, TitlePunct, 2024, DoiBlank, Bib, "unmatched")
RefDoiA == MkRef(2, TitleA, 2024, DoiA, Bib, "matched")
RefDoiAUpper == MkRef(3, TitleFar, NoYear, DoiAUpper, Bib, "matched")
RefDoiAUrl == MkRef(1, TitleNear, 2024, DoiAUrl, Bib, "matched")
RefDoiB == MkRef(3, TitleA, 2024, DoiB, Bib, "matched")
RefNoBib == MkRef(3, TitleA, 2024, null, null, "unmatched")
RefEmptyBib == MkRef(2, TitleA, 2024, DoiA, <<>>, "unmatched")
RefNearTie == MkRef(1, TitleNear2, 2024, null, Bib, "fuzzy")
RefDoiUnmatched == MkRef(1, TitleA, 2024, DoiB, Bib, "unmatched")
RefTieFirst == MkRef(1, TitleTieFirst, 2024, null, Bib, "matched")
RefTieSecond == MkRef(1, TitleTieSecond, 2024, null, Bib, "matched")
RefTieBoth == MkRef(1, TitleTieBoth, 2024, null, Bib, "matched")
RefLong == MkRef(1, TitleLong, 2024, null, Bib, "matched")
RefLonger == MkRef(1, TitleLonger, 2024, null, Bib, "matched")
RefLongest == MkRef(2, TitleLongest, 2024, null, Bib, "matched")

Scenarios ==
  [ titles   |-> {RefA, RefAPunct, RefNoTitle},
    conflict |-> {RefA, RefNear, RefNear2},
    fuzzy    |-> {RefA, RefSpaced, RefPunctTitle},
    doi      |-> {RefA, RefDoiA, RefDoiB},
    nobib    |-> {RefA, RefNoBib, RefEmptyBib},
    ranks    |-> {RefNear, RefNearTie, RefDoiUnmatched},
    ties     |-> {RefTieFirst, RefTieSecond, RefTieBoth} ]
SameDoiRefs == {RefDoiA, RefDoiAUpper, RefDoiAUrl, RefEmptyBib}
ResubmitRefs == {RefLong, RefLonger, RefLongest}

\* The pure functions of the references above, evaluated once: every call
\* the engine makes on a reference of the model reads these tables.
AllRefs == (UNION {Scenarios[name] : name \in DOMAIN Scenarios}) \cup SameDoiRefs \cup ResubmitRefs
AllTitles == {r.title : r \in AllRefs}
AllDois == {r.doi : r \in AllRefs}
doiOf == [d \in AllDois |-> normalizeDoi(d)]
fingerprintOf == [r \in AllRefs |-> exactFingerprint(r)]
similarityOf == [p \in AllTitles \X AllTitles |-> titleSimilarity(p[1], p[2])]

PaperIds == {"p1", "p2"}
PaperLabel(paperId) == IF paperId = "p1" THEN "one.pdf" ELSE "two.pdf"
Overrides == {null, <<"@", "o">>}
Resolutions == {"merge", "keep_both"}

\* The batches a caller passes: up to MaxBatch references of one document, each
\* at its own ordinal index, in any order
Batches(refs) ==
  {b \in UNION {[1..k -> refs] : k \in 1..MaxBatch} :
     \A i, j \in 1..Len(b) : i # j => b[i].index # b[j].index}

\* ------------------------------------------------------------------------
\* State
\* ------------------------------------------------------------------------
VARIABLES
  storeRef,   \* storeRef.current: the latest committed WorkspaceStoreV2
  now,        \* the value Date.now() returns
  nextId,     \* the identifiers createId has handed out are 1..nextId-1
  ops,        \* number of calls made so far
  call,       \* the most recent call: operation, arguments, return value
  pool,       \* the references that exist in this run
  submitted,  \* (paperId, index) pairs of the references with bibtex submitted so far
  store,          \* the state React rendered last (useState)
  pendingStore,   \* the state setStore has queued for the next render, if any
  hydratedRef,    \* hydratedRef.current
  effects,        \* the passive effects not yet run: of the mount, of an update, none
  localStorage,   \* the raw records under the current and the legacy key
  storageMode,    \* "ok", "full" (setItem throws) or "disabled" (every access throws)
  pathname,       \* AppHeader: usePathname()
  pendingView,    \* AppHeader: the pendingView state
  timerRef,       \* AppHeader: timerRef.current, the id of a timer or NoTimer
  timers,         \* the timeouts set and neither fired nor cleared: id and target
  pushes,         \* the paths router.push was called with, in order
  clicked,        \* the tabs clicked so far, in order
  status,         \* PasswordGate: the status state
  authFlag,       \* localStorage["refbib:authenticated"] === "true"
  retriesRef,     \* PasswordGate: retriesRef.current
  cancelledRef,   \* PasswordGate: cancelledRef.current
  connecting,     \* where connectToServer stands: the await it is suspended at
  submitting,     \* handleSubmit awaits verifyPassword
  fading,         \* the 500 ms timer of a verified password is pending
  authAnswer,     \* the server's last answer to /api/auth/status
  verifyAnswer,   \* the server's last answer to /api/verify-password
  state,          \* useExtractReferences: the state (stage, data, error)
  abortRef,       \* abortRef.current: the request whose controller it holds, or NoRequest
  requestIdRef,   \* requestIdRef.current
  requests,       \* the calls that took a request id: signal, timers, settled or not
  event           \* the most recent step of the extraction hook and its request

hookVars == <<store, pendingStore, hydratedRef, effects, localStorage, storageMode>>
headerVars == <<pathname, pendingView, timerRef, timers, pushes, clicked>>
gateVars == <<status, authFlag, retriesRef, cancelledRef, connecting, submitting,
              fading, authAnswer, verifyAnswer>>
vars == <<storeRef, now, nextId, ops, call, pool, submitted,
          store, pendingStore, hydratedRef, effects, localStorage, storageMode,
          pathname, pendingView, timerRef, timers, pushes, clicked,
          status, authFlag, retriesRef, cancelledRef, connecting, submitting,
          fading, authAnswer, verifyAnswer,
          state, abortRef, requestIdRef, requests, event>>
extractVars == <<state, abortRef, requestIdRef, requests, event>>

\* use-workspace.ts createDefaultWorkspaceMeta / createEmptyStore
createDefaultWorkspaceMeta(t) ==
  [id |-> DEFAULT_WORKSPACE_ID, name |-> "Workspace", created_at |-> t, updated_at |-> t]

createEmptyStore(t) ==
  [version |-> STORE_VERSION,
   active_workspace_id |-> DEFAULT_WORKSPACE_ID,
   workspaces |-> <<createDefaultWorkspaceMeta(t)>>,
   entries |-> <<>>,
   discovery_cache |-> [k \in {} |-> null],
   updated_at |-> t]

\* the `entries` memo of the hook: the entries of the active workspace
entriesOf(current) ==
  SelectSeq(current.entries, LAMBDA e : e.workspace_id = current.active_workspace_id)
entries == entriesOf(storeRef)

\* Map.prototype.set / get on a map kept as a function
EmptyMap == [k \in {} |-> NotFound]
MapSet(m, k, v) == [x \in DOMAIN m \cup {k} |-> IF x = k THEN v ELSE m[x]]
MapGet(m, k) == IF k \in DOMAIN m THEN m[k] ELSE NotFound

hasSourceRef(entry, sourceRef) ==
  \E i \in 1..Len(entry.source_refs) :
     /\ entry.source_refs[i].paper_id = sourceRef.paper_id
     /\ entry.source_refs[i].source_index = sourceRef.source_index

\* a variant that records no further source
mergeSourceRefDropped(entry, sourceRef, t) == entry

\* a variant that stamps the update time also when the source is already there
mergeSourceRefStampingAlways(entry, sourceRef, t) ==
  IF hasSourceRef(entry, sourceRef) THEN [entry EXCEPT !.updated_at = t]
  ELSE [entry EXCEPT !.source_refs = Append(@, sourceRef),
                     !.occurrence_count = @ + 1,
                     !.updated_at = t]

\* use-workspace.ts mergeSourceRef
mergeSourceRef(entry, sourceRef, t) ==
  IF hasSourceRef(entry, sourceRef) THEN entry
  ELSE [entry EXCEPT !.source_refs = Append(@, sourceRef),
                     !.occurrence_count = @ + 1,
                     !.updated_at = t]

\* a variant in which entries with a DOI are similarity candidates too
indexEntryAllCandidates(acc, i, entryDoi, fp) ==
  [acc EXCEPT
     !.doiMap = IF Truthy(entryDoi) THEN MapSet(@, entryDoi, i) ELSE @,
     !.similarityCandidateIndices = Append(@, i),
     !.fingerprintMap = IF fp # <<>> THEN MapSet(@, fp, i) ELSE @]

\* addReferences, lines 285-300: one existing entry enters the lookup maps
indexEntry(acc, i, entryDoi, fp) ==
  [acc EXCEPT
     !.doiMap = IF Truthy(entryDoi) THEN MapSet(@, entryDoi, i) ELSE @,
     !.similarityCandidateIndices = IF Truthy(entryDoi) THEN @ ELSE Append(@, i),
     !.fingerprintMap = IF fp # <<>> THEN MapSet(@, fp, i) ELSE @]

\* addReferences, lines 279-300: the lookup maps over the existing entries
RECURSIVE buildIndex(_, _, _, _)
buildIndex(nextEntries, workspaceId, i, acc) ==
  IF i > Len(nextEntries) THEN acc
  ELSE IF nextEntries[i].workspace_id # workspaceId
    THEN buildIndex(nextEntries, workspaceId, i + 1, acc)
  ELSE buildIndex(nextEntries, workspaceId, i + 1,
         indexEntry(acc, i, doiOf[nextEntries[i].reference.doi],
                    fingerprintOf[nextEntries[i].reference]))

\* a variant in which a later candidate of equal score replaces the best one
betterOfTakingTies(best, score, candidateIdx) ==
  IF ~ScoreGreater(best.bestScore, score)
    THEN [bestScore |-> score, bestCandidateIndex |-> candidateIdx]
    ELSE best

\* addReferences, lines 339-343
betterOf(best, score, candidateIdx) ==
  IF ScoreGreater(score, best.bestScore)
    THEN [bestScore |-> score, bestCandidateIndex |-> candidateIdx]
    ELSE best

\* addReferences, lines 335-345: the title-similarity scan; a later candidate
\* replaces the best one only with a strictly greater score
RECURSIVE scanCandidates(_, _, _, _, _)
scanCandidates(nextEntries, candidates, title, k, best) ==
  IF k > Len(candidates) THEN best
  ELSE scanCandidates(nextEntries, candidates, title, k + 1,
         betterOf(best,
                  similarityOf[<<title, nextEntries[candidates[k]].reference.title>>],
                  candidates[k]))

\* a variant that finds no exact match
lookupExactNothing(acc, doi, fingerprint) == NotFound

\* addReferences, lines 309-323: the entry index the DOI map or, failing that,
\* the fingerprint map holds for the reference
lookupExact(acc, doi, fingerprint) ==
  LET byDoi == IF Truthy(doi) THEN MapGet(acc.doiMap, doi) ELSE NotFound
  IN  IF byDoi # NotFound THEN byDoi
      ELSE IF fingerprint # <<>> THEN MapGet(acc.fingerprintMap, fingerprint)
      ELSE NotFound

\* a variant that counts a merge as an addition
mergeAtCountedAdded(acc, idx, sourceRef, t) ==
  [acc EXCEPT !.nextEntries[idx] = mergeSourceRef(@, sourceRef, t),
              !.result.added = @ + 1]

\* addReferences, lines 325-333 and 347-355: merge into the entry at idx
mergeAt(acc, idx, sourceRef, t) ==
  [acc EXCEPT !.nextEntries[idx] = mergeSourceRef(@, sourceRef, t),
              !.result.merged = @ + 1]

\* a variant that merges from the conflict threshold on
isAutoMergeFromConflictThreshold(best) ==
  best.bestCandidateIndex # NotFound /\ ScoreAtLeast(best.bestScore, CONFLICT_THRESHOLD)

\* addReferences, line 347
isAutoMerge(best) ==
  best.bestCandidateIndex # NotFound /\ ScoreAtLeast(best.bestScore, AUTO_MERGE_THRESHOLD)

\* addReferences, lines 357-358
bestCandidateIdOf(acc, best) ==
  IF best.bestCandidateIndex # NotFound
    THEN acc.nextEntries[best.bestCandidateIndex].id ELSE NoId

\* addReferences, lines 359-360
statusFor(bestCandidateId, bestScore) ==
  IF bestCandidateId # NoId /\ ScoreAtLeast(bestScore, CONFLICT_THRESHOLD)
    THEN "conflict" ELSE "unique"

\* a variant that gives every entry without fingerprint the same one
manualFingerprintShared(id) == <<"m","a","n","u","a","l",":">>

\* `manual:${createId()}`
manualFingerprint(id) == <<"m","a","n","u","a","l",":">> \o numberToString(id)

\* a variant that never counts a conflict
countNewWithoutConflicts(result, dedupStatus) == [result EXCEPT !.added = @ + 1]

\* addReferences, lines 361-363 and 383: a new entry is counted
countNew(result, dedupStatus) ==
  [result EXCEPT !.added = @ + 1,
                 !.conflicts = IF dedupStatus = "conflict" THEN @ + 1 ELSE @]

\* a variant that also puts the best candidate in conflict with the new entry
pushEntryLinkingBack(acc, reference, sourceRef, doi, fingerprint, workspaceId, t, bestCandidateId, dedupStatus) ==
  [acc EXCEPT
     !.nextEntries = Append(
        [i \in 1..Len(@) |->
           IF @[i].id = bestCandidateId /\ dedupStatus = "conflict"
             THEN [@[i] EXCEPT !.dedup_status = "conflict", !.conflict_with = acc.nextId]
             ELSE @[i]],
        [id |-> acc.nextId, workspace_id |-> workspaceId,
         paper_id |-> sourceRef.paper_id, source_index |-> reference.index,
         ref_fingerprint |-> IF fingerprint # <<>> THEN fingerprint
                             ELSE manualFingerprint(acc.nextId + 1),
         dedup_status |-> dedupStatus, reference |-> reference,
         source_refs |-> <<sourceRef>>, occurrence_count |-> 1,
         conflict_with |-> bestCandidateId, override_bibtex |-> null,
         resolved_at |-> -1, created_at |-> t, updated_at |-> t]),
     !.result = countNew(@, dedupStatus),
     !.nextId = IF fingerprint # <<>> THEN @ + 1 ELSE @ + 2,
     !.doiMap = IF Truthy(doi) THEN MapSet(@, doi, Len(acc.nextEntries) + 1) ELSE @,
     !.similarityCandidateIndices =
        IF Truthy(doi) THEN @ ELSE Append(@, Len(acc.nextEntries) + 1),
     !.fingerprintMap =
        MapSet(@, IF fingerprint # <<>> THEN fingerprint
                  ELSE manualFingerprint(acc.nextId + 1),
               Len(acc.nextEntries) + 1)]

\* a variant that pushes the new entry and leaves the lookup maps as they were
pushEntryWithoutIndexUpdate(acc, reference, sourceRef, doi, fingerprint, workspaceId, t, bestCandidateId, dedupStatus) ==
  [acc EXCEPT
     !.nextEntries = Append(@,
        [id |-> acc.nextId, workspace_id |-> workspaceId,
         paper_id |-> sourceRef.paper_id, source_index |-> reference.index,
         ref_fingerprint |-> IF fingerprint # <<>> THEN fingerprint
                             ELSE manualFingerprint(acc.nextId + 1),
         dedup_status |-> dedupStatus, reference |-> reference,
         source_refs |-> <<sourceRef>>, occurrence_count |-> 1,
         conflict_with |-> bestCandidateId, override_bibtex |-> null,
         resolved_at |-> -1, created_at |-> t, updated_at |-> t]),
     !.result = countNew(@, dedupStatus),
     !.nextId = IF fingerprint # <<>> THEN @ + 1 ELSE @ + 2]

\* addReferences, lines 365-394: a new entry is pushed and enters the maps;
\* createId hands out acc.nextId, and the next identifier for a manual fingerprint
pushEntry(acc, reference, sourceRef, doi, fingerprint, workspaceId, t, bestCandidateId, dedupStatus) ==
  [acc EXCEPT
     !.nextEntries = Append(@,
        [id |-> acc.nextId, workspace_id |-> workspaceId,
         paper_id |-> sourceRef.paper_id, source_index |-> reference.index,
         ref_fingerprint |-> IF fingerprint # <<>> THEN fingerprint
                             ELSE manualFingerprint(acc.nextId + 1),
         dedup_status |-> dedupStatus, reference |-> reference,
         source_refs |-> <<sourceRef>>, occurrence_count |-> 1,
         conflict_with |-> bestCandidateId, override_bibtex |-> null,
         resolved_at |-> -1, created_at |-> t, updated_at |-> t]),
     !.result = countNew(@, dedupStatus),
     !.nextId = IF fingerprint # <<>> THEN @ + 1 ELSE @ + 2,
     !.doiMap = IF Truthy(doi) THEN MapSet(@, doi, Len(acc.nextEntries) + 1) ELSE @,
     !.similarityCandidateIndices =
        IF Truthy(doi) THEN @ ELSE Append(@, Len(acc.nextEntries) + 1),
     !.fingerprintMap =
        MapSet(@, IF fingerprint # <<>> THEN fingerprint
                  ELSE manualFingerprint(acc.nextId + 1),
               Len(acc.nextEntries) + 1)]

\* addReferences, lines 347-383: no exact match; `best` is the result of the scan
placeBySimilarity(acc, reference, sourceRef, doi, fingerprint, workspaceId, t, best) ==
  IF isAutoMerge(best) THEN mergeAt(acc, best.bestCandidateIndex, sourceRef, t)
  ELSE pushEntry(acc, reference, sourceRef, doi, fingerprint, workspaceId, t,
                 bestCandidateIdOf(acc, best),
                 statusFor(bestCandidateIdOf(acc, best), best.bestScore))

\* addReferences, lines 309-355
placeReference(acc, reference, sourceRef, doi, fingerprint, workspaceId, t) ==
  IF lookupExact(acc, doi, fingerprint) # NotFound
    THEN mergeAt(acc, lookupExact(acc, doi, fingerprint), sourceRef, t)
    ELSE placeBySimilarity(acc, reference, sourceRef, doi, fingerprint, workspaceId, t,
           scanCandidates(acc.nextEntries, acc.similarityCandidateIndices,
                          reference.title, 1,
                          [bestScore |-> ZeroScore, bestCandidateIndex |-> NotFound]))

\* addReferences, lines 302-395: the body of the loop for one reference
addOne(acc, reference, paperId, paperLabel, workspaceId, t) ==
  placeReference(acc, reference,
                 [paper_id |-> paperId, paper_label |-> paperLabel,
                  source_index |-> reference.index],
                 doiOf[reference.doi], fingerprintOf[reference], workspaceId, t)

RECURSIVE addLoop(_, _, _, _, _, _, _)
addLoop(acc, selected, k, paperId, paperLabel, workspaceId, t) ==
  IF k > Len(selected) THEN acc
  ELSE addLoop(addOne(acc, selected[k], paperId, paperLabel, workspaceId, t),
               selected, k + 1, paperId, paperLabel, workspaceId, t)

touchWorkspace(workspaces, workspaceId, t) ==
  [i \in 1..Len(workspaces) |->
     IF workspaces[i].id = workspaceId
       THEN [workspaces[i] EXCEPT !.updated_at = t] ELSE workspaces[i]]

\* a variant that selects every reference
isSelectedAlways(reference) == TRUE

\* addReferences, line 272
isSelected(reference) == Truthy(reference.bibtex)

\* addReferences, lines 397-409: the store committed and the counts returned
addOutcome(previous, final, t) ==
  [store |-> [previous EXCEPT
                !.entries = final.nextEntries,
                !.workspaces = touchWorkspace(@, previous.active_workspace_id, t),
                !.updated_at = t],
   result |-> final.result,
   nextId |-> final.nextId]

\* addReferences as a function of the snapshot it reads: the store it commits,
\* the counts it returns and the identifier counter it leaves
addReferencesTo(previous, firstId, paperId, paperLabel, references, t) ==
  addOutcome(previous,
    addLoop(buildIndex(previous.entries, previous.active_workspace_id, 1,
                       [nextEntries |-> previous.entries,
                        doiMap |-> EmptyMap, fingerprintMap |-> EmptyMap,
                        similarityCandidateIndices |-> <<>>,
                        result |-> [added |-> 0, merged |-> 0, conflicts |-> 0],
                        nextId |-> firstId]),
            SelectSeq(references, isSelected), 1, paperId, paperLabel,
            previous.active_workspace_id, t),
    t)

\* Array.prototype.findIndex over the entries of one workspace (NotFound for -1)
findEntryIndex(nextEntries, entryId, workspaceId) ==
  LET hits == {i \in 1..Len(nextEntries) :
                 nextEntries[i].id = entryId /\ nextEntries[i].workspace_id = workspaceId}
  IN  IF hits = {} THEN NotFound ELSE CHOOSE i \in hits : \A j \in hits : i <= j

\* nextEntries.splice(i, 1)
RemoveAt(s, i) == SubSeq(s, 1, i - 1) \o SubSeq(s, i + 1, Len(s))

markUnique(entry, t) ==
  [entry EXCEPT !.dedup_status = "unique", !.conflict_with = NoId,
                !.resolved_at = t, !.updated_at = t]

\* resolveConflict, lines 518-523
rank(e) ==
  IF Truthy(e.reference.doi) THEN 3
  ELSE IF e.reference.match_status = "matched" THEN 2
  ELSE IF e.reference.match_status = "fuzzy" THEN 1
  ELSE 0

\* a variant that appends every source of the loser
unionSourceRefsKeepingDuplicates(mergedSourceRefs, loserRefs, k) ==
  mergedSourceRefs \o loserRefs

\* resolveConflict, lines 532-538: the winner's source_refs followed by the
\* loser's that are not among them
RECURSIVE unionSourceRefs(_, _, _)
unionSourceRefs(mergedSourceRefs, loserRefs, k) ==
  IF k > Len(loserRefs) THEN mergedSourceRefs
  ELSE unionSourceRefs(
         IF \E i \in 1..Len(mergedSourceRefs) :
              /\ mergedSourceRefs[i].paper_id = loserRefs[k].paper_id
              /\ mergedSourceRefs[i].source_index = loserRefs[k].source_index
           THEN mergedSourceRefs ELSE Append(mergedSourceRefs, loserRefs[k]),
         loserRefs, k + 1)

mergedOccurrenceCount(winner, loser) == winner.occurrence_count + loser.occurrence_count

\* a variant that marks the counterpart unique whatever it points at
keepBothClearingCounterpart(nextEntries, entryIdx, conflictIdx, entryId, t) ==
  [i \in 1..Len(nextEntries) |->
     IF i = entryIdx \/ i = conflictIdx THEN markUnique(nextEntries[i], t)
     ELSE nextEntries[i]]

\* resolveConflict, lines 485-504
keepBoth(nextEntries, entryIdx, conflictIdx, entryId, t) ==
  [i \in 1..Len(nextEntries) |->
     IF i = entryIdx THEN markUnique(nextEntries[i], t)
     ELSE IF /\ i = conflictIdx
             /\ nextEntries[i].dedup_status = "conflict"
             /\ nextEntries[i].conflict_with = entryId
       THEN markUnique(nextEntries[i], t)
     ELSE nextEntries[i]]

\* a variant that clears the links of the entries in conflict only
clearLinksOfConflictsTo(nextEntries, loserId, t) ==
  [i \in 1..Len(nextEntries) |->
     IF nextEntries[i].conflict_with = loserId /\ nextEntries[i].dedup_status = "conflict"
       THEN [nextEntries[i] EXCEPT !.conflict_with = NoId,
                                   !.dedup_status = "unique",
                                   !.updated_at = t]
       ELSE nextEntries[i]]

\* a variant that leaves the links to the removed loser
clearLinksToNothing(nextEntries, loserId, t) == nextEntries

\* resolveConflict, lines 554-564: links to the removed loser are cleared
clearLinksTo(nextEntries, loserId, t) ==
  [i \in 1..Len(nextEntries) |->
     IF nextEntries[i].conflict_with = loserId
       THEN [nextEntries[i] EXCEPT !.conflict_with = NoId,
                                   !.dedup_status = "unique",
                                   !.updated_at = t]
       ELSE nextEntries[i]]

\* resolveConflict, lines 528-552: the winner absorbs the loser, which is removed
absorb(nextEntries, winnerIdx, loserIdx, t) ==
  clearLinksTo(
    RemoveAt([nextEntries EXCEPT ![winnerIdx] =
                [@ EXCEPT
                   !.dedup_status = "unique",
                   !.conflict_with = NoId,
                   !.source_refs = unionSourceRefs(@, nextEntries[loserIdx].source_refs, 1),
                   !.occurrence_count =
                      mergedOccurrenceCount(nextEntries[winnerIdx], nextEntries[loserIdx]),
                   !.resolved_at = t,
                   !.updated_at = t]],
             loserIdx),
    nextEntries[loserIdx].id, t)

\* a variant in which the counterpart wins a tie
mergePairTieToCounterpart(nextEntries, entryIdx, conflictIdx, t) ==
  IF rank(nextEntries[conflictIdx]) >= rank(nextEntries[entryIdx])
    THEN absorb(nextEntries, conflictIdx, entryIdx, t)
    ELSE absorb(nextEntries, entryIdx, conflictIdx, t)

\* resolveConflict, lines 516-527: the entry of higher rank wins, the resolved
\* entry on a tie
mergePair(nextEntries, entryIdx, conflictIdx, t) ==
  IF rank(nextEntries[conflictIdx]) > rank(nextEntries[entryIdx])
    THEN absorb(nextEntries, conflictIdx, entryIdx, t)
    ELSE absorb(nextEntries, entryIdx, conflictIdx, t)

\* resolveConflict, lines 479-483
conflictIndexOf(nextEntries, entry, workspaceId) ==
  IF entry.conflict_with # NoId
    THEN findEntryIndex(nextEntries, entry.conflict_with, workspaceId)
    ELSE NotFound

\* a variant in which a merge without counterpart removes the entry
resolveEntriesDroppingLoneEntry(nextEntries, entryIdx, conflictIdx, entryId, resolution, t) ==
  IF resolution = "keep_both"
    THEN keepBoth(nextEntries, entryIdx, conflictIdx, entryId, t)
  ELSE IF conflictIdx = NotFound
    THEN RemoveAt(nextEntries, entryIdx)
  ELSE mergePair(nextEntries, entryIdx, conflictIdx, t)

\* resolveConflict, lines 485-566
resolveEntries(nextEntries, entryIdx, conflictIdx, entryId, resolution, t) ==
  IF resolution = "keep_both"
    THEN keepBoth(nextEntries, entryIdx, conflictIdx, entryId, t)
  ELSE IF conflictIdx = NotFound
    THEN [nextEntries EXCEPT ![entryIdx] = markUnique(@, t)]
  ELSE mergePair(nextEntries, entryIdx, conflictIdx, t)

\* a variant without the guard on the status of the entry
resolveAtAnyStatus(previous, entryIdx, entryId, resolution, t) ==
  IF entryIdx = NotFound THEN [committed |-> FALSE, store |-> previous]
  ELSE [committed |-> TRUE,
        store |-> [previous EXCEPT
                     !.entries = resolveEntries(@, entryIdx,
                                   conflictIndexOf(@, @[entryIdx],
                                                   previous.active_workspace_id),
                                   entryId, resolution, t),
                     !.workspaces = touchWorkspace(@, previous.active_workspace_id, t),
                     !.updated_at = t]]

\* resolveConflict, lines 472-477 and 568-575
resolveAt(previous, entryIdx, entryId, resolution, t) ==
  IF entryIdx = NotFound THEN [committed |-> FALSE, store |-> previous]
  ELSE IF previous.entries[entryIdx].dedup_status # "conflict"
    THEN [committed |-> FALSE, store |-> previous]
  ELSE [committed |-> TRUE,
        store |-> [previous EXCEPT
                     !.entries = resolveEntries(@, entryIdx,
                                   conflictIndexOf(@, @[entryIdx],
                                                   previous.active_workspace_id),
                                   entryId, resolution, t),
                     !.workspaces = touchWorkspace(@, previous.active_workspace_id, t),
                     !.updated_at = t]]

\* resolveConflict: whether it commits, and the store it commits
resolveConflictIn(previous, entryId, resolution, t) ==
  resolveAt(previous,
            findEntryIndex(previous.entries, entryId, previous.active_workspace_id),
            entryId, resolution, t)

\* a variant that empties the discovery cache with the workspace
clearWorkspaceInWithCache(previous, t) ==
  [previous EXCEPT
     !.entries = SelectSeq(@, LAMBDA e : e.workspace_id # previous.active_workspace_id),
     !.workspaces = touchWorkspace(@, previous.active_workspace_id, t),
     !.discovery_cache = [k \in {} |-> null],
     !.updated_at = t]

\* clearWorkspace, lines 414-429
clearWorkspaceIn(previous, t) ==
  [previous EXCEPT
     !.entries = SelectSeq(@, LAMBDA e : e.workspace_id # previous.active_workspace_id),
     !.workspaces = touchWorkspace(@, previous.active_workspace_id, t),
     !.updated_at = t]

\* updateEntryBibtex, lines 580-592
updateEntryBibtexIn(previous, entryId, bibtex, t) ==
  [previous EXCEPT
     !.entries = [i \in 1..Len(@) |->
                    IF @[i].id = entryId
                      THEN [@[i] EXCEPT !.override_bibtex = bibtex, !.updated_at = t]
                      ELSE @[i]],
     !.updated_at = t]

\* ------------------------------------------------------------------------
\* Discovery cache (use-workspace.ts:71-76, 143-154, 431-463)
\* ------------------------------------------------------------------------
RawPrefix == <<"r","a","w",":">>

\* discoveryFingerprint: the exact fingerprint, else the normalized raw
\* citation, else null
discoveryFingerprint(reference) ==
  IF Truthy(exactFingerprint(reference)) THEN exactFingerprint(reference)
  ELSE IF Truthy(normalizeText(reference.raw_citation))
         THEN RawPrefix \o normalizeText(reference.raw_citation)
         ELSE null

\* a reference known by its raw citation only
RefRawOnly ==
  [MkRef(2, null, NoYear, null, Bib, "unmatched") EXCEPT !.raw_citation = <<"R","a","w",".">>]

\* the references whose availability is looked up, and their cache keys
DiscoveryRefs == {RefA, RefNear, RefRawOnly, RefNoTitle}
discoveryKeyOf == [r \in DiscoveryRefs |-> discoveryFingerprint(r)]

\* the DiscoveryResult values of the model; NoDiscovery stands for null
Available == [discovery_status |-> "available"]
NoDiscovery == [discovery_status |-> "null"]
DiscoveryResults == {Available}

EmptyCache == [k \in {} |-> NoDiscovery]

\* mutation of pruneExpiredDiscoveryCache: nothing is dropped
pruneNothing(cache, t) == cache

\* pruneExpiredDiscoveryCache at time t
pruneExpiredDiscoveryCache(cache, t) ==
  [k \in {x \in DOMAIN cache : cache[x].expires_at > t} |-> cache[k]]

\* the DiscoveryCacheEntry cacheDiscoveryResult writes at time t
cacheEntry(result, t) ==
  [result |-> result, checked_at |-> t, expires_at |-> t + DISCOVERY_CACHE_TTL_MS]

\* a variant that builds the committed store without the entries of the previous one
cacheDiscoveryResultInWithoutEntries(previous, key, result, t) ==
  [previous EXCEPT !.discovery_cache = MapSet(@, key, cacheEntry(result, t)),
                   !.entries = <<>>,
                   !.updated_at = t]

\* cacheDiscoveryResult, lines 449-460: the store committed for a non-null key
cacheDiscoveryResultIn(previous, key, result, t) ==
  [previous EXCEPT !.discovery_cache = MapSet(@, key, cacheEntry(result, t)),
                   !.updated_at = t]

\* getCachedDiscovery on the rendered store at time t
getCachedDiscoveryIn(rendered, key, t) ==
  IF key = null THEN NoDiscovery
  ELSE IF key \notin DOMAIN rendered.discovery_cache THEN NoDiscovery
  ELSE IF rendered.discovery_cache[key].expires_at <= t THEN NoDiscovery
  ELSE rendered.discovery_cache[key].result

\* ------------------------------------------------------------------------
\* Storage (use-workspace.ts:118-195)
\* ------------------------------------------------------------------------
\* What localStorage holds under a key: nothing, text JSON.parse rejects, or
\* the text JSON.stringify made of a value
Absent == [present |-> FALSE]
Garbled == [present |-> TRUE, parses |-> FALSE]
JSONstringify(value) == [present |-> TRUE, parses |-> TRUE, value |-> value]
StorageKeys == {WORKSPACE_STORAGE_KEY, LEGACY_WORKSPACE_STORAGE_KEY}
EmptyStorage == [k \in StorageKeys |-> Absent]
StorageWith(current, legacy) ==
  [k \in StorageKeys |-> IF k = WORKSPACE_STORAGE_KEY THEN current ELSE legacy]

\* isStoreV2. A field a record of the model carries has the JSON type the
\* schema gives it, so each typeof / Array.isArray test is the field's presence.
isStoreV2(value) ==
  /\ "version" \in DOMAIN value
  /\ value.version = STORE_VERSION
  /\ "active_workspace_id" \in DOMAIN value
  /\ "workspaces" \in DOMAIN value
  /\ "entries" \in DOMAIN value
  /\ "discovery_cache" \in DOMAIN value

\* toStoreFromLegacy at time t
toStoreFromLegacy(legacy, t) ==
  [createEmptyStore(t) EXCEPT
     !.entries = IF "entries" \in DOMAIN legacy THEN legacy.entries ELSE <<>>,
     !.updated_at = IF "updated_at" \in DOMAIN legacy THEN legacy.updated_at ELSE t]

\* persistWorkspace: setItem under the current key; a throw is swallowed
persistWorkspace(storage, mode, value) ==
  IF mode = "ok"
    THEN [storage EXCEPT ![WORKSPACE_STORAGE_KEY] = JSONstringify(value)]
    ELSE storage

\* The first try block of loadWorkspaceFromStorage, lines 159-171: it returns
\* the pruned record, or control falls through (nothing stored, a record that
\* is not a version-2 store, or a throw of getItem or JSON.parse)
loadCurrent(storage, mode, t) ==
  IF mode = "disabled" THEN [returned |-> FALSE]
  ELSE IF ~storage[WORKSPACE_STORAGE_KEY].present THEN [returned |-> FALSE]
  ELSE IF ~storage[WORKSPACE_STORAGE_KEY].parses THEN [returned |-> FALSE]
  ELSE IF ~isStoreV2(storage[WORKSPACE_STORAGE_KEY].value) THEN [returned |-> FALSE]
  ELSE [returned |-> TRUE,
        store |-> [storage[WORKSPACE_STORAGE_KEY].value EXCEPT
                     !.discovery_cache = pruneExpiredDiscoveryCache(@, t)],
        storage |-> storage]

\* The second try block, lines 173-183: the migrated store is returned only
\* when getItem, JSON.parse and setItem all succeed
loadLegacy(storage, mode, t) ==
  IF mode = "disabled" THEN [returned |-> FALSE]
  ELSE IF ~storage[LEGACY_WORKSPACE_STORAGE_KEY].present THEN [returned |-> FALSE]
  ELSE IF ~storage[LEGACY_WORKSPACE_STORAGE_KEY].parses THEN [returned |-> FALSE]
  ELSE IF mode = "full" THEN [returned |-> FALSE]
  ELSE [returned |-> TRUE,
        store |-> toStoreFromLegacy(storage[LEGACY_WORKSPACE_STORAGE_KEY].value, t),
        storage |-> [storage EXCEPT ![WORKSPACE_STORAGE_KEY] =
                       JSONstringify(toStoreFromLegacy(
                         storage[LEGACY_WORKSPACE_STORAGE_KEY].value, t))]]

\* loadWorkspaceFromStorage at time t: the store returned and the storage left
loadWorkspaceFromStorage(storage, mode, t) ==
  IF loadCurrent(storage, mode, t).returned THEN loadCurrent(storage, mode, t)
  ELSE IF loadLegacy(storage, mode, t).returned THEN loadLegacy(storage, mode, t)
  ELSE [returned |-> TRUE, store |-> createEmptyStore(t), storage |-> storage]

\* ------------------------------------------------------------------------
\* The hook's effects (use-workspace.ts:219-245)
\* ------------------------------------------------------------------------
\* what useState holds for the next render: nothing, or the value set last
NoPending == [queued |-> FALSE]
Queued(value) == [queued |-> TRUE, value |-> value]

\* hasPersistedData, lines 229-232
hasPersistedData(persisted) ==
  \/ Len(persisted.entries) > 0
  \/ Len(persisted.workspaces) > 1
  \/ DOMAIN persisted.discovery_cache # {}

\* The refs and the storage an effect reads and writes, as one value
HookState(ref, pending, hydrated, storage) ==
  [storeRef |-> ref, pendingStore |-> pending, hydratedRef |-> hydrated,
   localStorage |-> storage]

\* mutation of adopt: the loaded store is assigned to the ref but never queued
adoptWithoutRender(h, loaded) ==
  IF hasPersistedData(loaded.store)
    THEN [h EXCEPT !.storeRef = loaded.store, !.localStorage = loaded.storage]
    ELSE [h EXCEPT !.localStorage = loaded.storage]

\* lines 233-236 of the hydration effect, given what load returned
adopt(h, loaded) ==
  IF hasPersistedData(loaded.store)
    THEN [h EXCEPT !.storeRef = loaded.store, !.pendingStore = Queued(loaded.store),
                   !.localStorage = loaded.storage]
    ELSE [h EXCEPT !.localStorage = loaded.storage]

\* the hydration effect, lines 224-237, run at time t
hydrationEffect(h, mode, t) ==
  IF h.hydratedRef THEN h
  ELSE adopt([h EXCEPT !.hydratedRef = TRUE],
             loadWorkspaceFromStorage(h.localStorage, mode, t))

\* mutation of persistEffect: the effect never writes
persistEffectWithoutWrite(h, rendered, mode) == [h EXCEPT !.storeRef = rendered]

\* mutation of persistEffect: a failing write takes the assignment with it
persistEffectUndoneByFailure(h, rendered, mode) ==
  IF h.hydratedRef /\ mode # "ok" THEN h
  ELSE [h EXCEPT !.storeRef = rendered,
                 !.localStorage = IF h.hydratedRef
                                    THEN persistWorkspace(@, mode, rendered)
                                    ELSE @]

\* the persist effect, lines 239-245, of the render that produced `rendered`
persistEffect(h, rendered, mode) ==
  [h EXCEPT !.storeRef = rendered,
            !.localStorage = IF h.hydratedRef
                               THEN persistWorkspace(@, mode, rendered)
                               ELSE @]

\* ------------------------------------------------------------------------
\* The calls
\* ------------------------------------------------------------------------
NoResult == [added |-> 0, merged |-> 0, conflicts |-> 0]
NoCall == [op |-> "none", paperId |-> "", references |-> <<>>, entryId |-> NoId,
           resolution |-> "", bibtex |-> null, result |-> NoResult,
           committed |-> FALSE, key |-> null, discovery |-> NoDiscovery]

\* identifiers a caller can name: those handed out so far and one never used
KnownIds == 1..nextId

\* useState's setter: the value waits for the next render; of several values
\* queued before one render the last one is rendered
setStore(value) == pendingStore' = Queued(value)

\* commitStore, lines 247-250
commitStore(nextStore) ==
  /\ storeRef' = nextStore
  /\ setStore(nextStore)

\* what no callback touches: the rendered state, the hydration flag, the
\* effects still to run and the storage
CallbackFrame ==
  /\ UNCHANGED <<store, hydratedRef, effects, localStorage, storageMode>>
  /\ UNCHANGED headerVars
  /\ UNCHANGED gateVars
  /\ UNCHANGED extractVars

\* A call is made: it reads the clock, which has advanced since the previous
\* call, and `call` records it.
Called(c) ==
  /\ ops < MaxOps
  /\ ops' = ops + 1
  /\ now' = now + 1
  /\ call' = c
  /\ CallbackFrame

\* addReferences returns r: the store is committed and the counts handed back
AddReferencesReturns(paperId, references, r) ==
  /\ Called([NoCall EXCEPT !.op = "addReferences", !.paperId = paperId,
                           !.references = references, !.result = r.result,
                           !.committed = TRUE])
  /\ commitStore(r.store)
  /\ nextId' = r.nextId
  /\ submitted' = submitted \cup
       {<<paperId, references[i].index>> :
          i \in {j \in 1..Len(references) : isSelected(references[j])}}
  /\ UNCHANGED pool

AddReferences ==
  \E paperId \in PaperIds : \E references \in Batches(pool) :
    AddReferencesReturns(paperId, references,
      addReferencesTo(storeRef, nextId, paperId, PaperLabel(paperId), references, now))

ResolveConflict ==
  \E entryId \in KnownIds : \E resolution \in Resolutions :
    /\ Called([NoCall EXCEPT
                 !.op = "resolveConflict", !.entryId = entryId,
                 !.resolution = resolution,
                 !.committed = resolveConflictIn(storeRef, entryId, resolution, now).committed])
    /\ IF resolveConflictIn(storeRef, entryId, resolution, now).committed
         THEN commitStore(resolveConflictIn(storeRef, entryId, resolution, now).store)
         ELSE UNCHANGED <<storeRef, pendingStore>>
    /\ UNCHANGED <<nextId, pool, submitted>>

ClearWorkspace ==
  /\ Called([NoCall EXCEPT !.op = "clearWorkspace", !.committed = TRUE])
  /\ commitStore(clearWorkspaceIn(storeRef, now))
  /\ UNCHANGED <<nextId, pool, submitted>>

UpdateEntryBibtex ==
  \E entryId \in KnownIds : \E bibtex \in Overrides :
    /\ Called([NoCall EXCEPT !.op = "updateEntryBibtex", !.entryId = entryId,
                             !.bibtex = bibtex, !.committed = TRUE])
    /\ commitStore(updateEntryBibtexIn(storeRef, entryId, bibtex, now))
    /\ UNCHANGED <<nextId, pool, submitted>>

\* ------------------------------------------------------------------------
\* AppHeader navigation (app-header.tsx:15-17, 81-87, 100-141)
\* ------------------------------------------------------------------------
EXTRACT_PATH == "/"
WORKSPACE_PATH == "/workspace"
Views == {"extract", "workspace"}
NoView == "none"
NoTimer == 0

\* lines 84-86; the paths of the model are the two the header pushes
currentViewOf(path) == IF path = WORKSPACE_PATH THEN "workspace" ELSE "extract"
\* line 138
pathOf(target) == IF target = "extract" THEN EXTRACT_PATH ELSE WORKSPACE_PATH

\* clearTimeout(id): clearing NoTimer or a timer that is gone does nothing
clearTimeout(pending, id) == {t \in pending : t.id # id}

\* What handleNavigate reads and writes, as one value
HeaderState(view, ref, pending) ==
  [pendingView |-> view, timerRef |-> ref, timers |-> pending]

\* mutation of handleNavigate: the pending timer is not cleared
handleNavigateWithoutClear(h, currentView, target, id) ==
  IF target = currentView
    THEN [h EXCEPT !.pendingView = NoView]
    ELSE [h EXCEPT !.pendingView = target, !.timerRef = id,
                   !.timers = @ \cup {[id |-> id, target |-> target]}]

\* handleNavigate, lines 127-141; id is the id setTimeout returns
handleNavigate(h, currentView, target, id) ==
  IF target = currentView
    THEN [h EXCEPT !.pendingView = NoView, !.timerRef = NoTimer,
                   !.timers = clearTimeout(@, h.timerRef)]
    ELSE [h EXCEPT !.pendingView = target, !.timerRef = id,
                   !.timers = clearTimeout(@, h.timerRef)
                                \cup {[id |-> id, target |-> target]}]

\* a header mounted on a page: no view pending, no timer
HeaderMounted(path) ==
  /\ pathname = path
  /\ pendingView = NoView
  /\ timerRef = NoTimer
  /\ timers = {}
  /\ pushes = <<>>
  /\ clicked = <<>>

\* ------------------------------------------------------------------------
\* PasswordGate (password-gate.tsx:13-129, api-client.ts:80-103)
\* ------------------------------------------------------------------------
MAX_HEALTH_RETRIES == 5

\* what the server does with a request: an ok response carrying true or
\* false, a response that is not ok, or no response (fetch rejects)
Answers == {"true", "false", "httpError", "networkError"}
NoAnswer == "none"

\* checkAuthRequired / verifyPassword, api-client.ts:87-103: a response that
\* is not ok is returned as false, a rejected fetch throws
asBoolean(answer) ==
  [threw |-> answer = "networkError", value |-> answer = "true"]

\* lines 66-74 of connectToServer: the status set once checkAuthRequired settled
statusAfterAuth(required) ==
  IF required.threw THEN "locked"
  ELSE IF required.value THEN "locked" ELSE "unlocked"

\* the gate after its first render, lines 23-31
GateMounted(flag) ==
  /\ status = "connecting"
  /\ authFlag = flag
  /\ retriesRef = 0
  /\ cancelledRef = FALSE
  /\ connecting = "mount"
  /\ submitting = FALSE
  /\ fading = FALSE
  /\ authAnswer = NoAnswer
  /\ verifyAnswer = NoAnswer

\* useExtractReferences after its first render, part_006:22-28
NoRequest == 0
IdleState == [stage |-> "idle", data |-> null, error |-> null]
NoEvent == [kind |-> "none", requestId |-> NoRequest]
ExtractMounted ==
  /\ state = IdleState
  /\ abortRef = NoRequest
  /\ requestIdRef = 0
  /\ requests = <<>>
  /\ event = NoEvent

\* The hook after its first render at time t, no effect run yet: useState and
\* the two useRef calls, lines 219-221
FirstRender(t, storage, mode) ==
  /\ store = createEmptyStore(t)
  /\ storeRef = createEmptyStore(t)
  /\ pendingStore = NoPending
  /\ hydratedRef = FALSE
  /\ effects = "mount"
  /\ localStorage = storage
  /\ storageMode = mode
  /\ now = t

InitWith(refs) ==
  /\ HeaderMounted(EXTRACT_PATH)
  /\ GateMounted(FALSE)
  /\ ExtractMounted
  /\ FirstRender(0, EmptyStorage, "ok")
  /\ nextId = 1
  /\ ops = 0
  /\ call = NoCall
  /\ pool = refs
  /\ submitted = {}

Init == \E name \in DOMAIN Scenarios : InitWith(Scenarios[name])

Next ==
  \/ AddReferences
  \/ ResolveConflict
  \/ ClearWorkspace
  \/ UpdateEntryBibtex

Spec == Init /\ [][Next]_vars

\* Only references carrying the normalized DOI 10/a are ever submitted.
InitSameDoi == InitWith(SameDoiRefs)
NextSameDoi ==
  \/ AddReferences
SpecSameDoi == InitSameDoi /\ [][NextSameDoi]_vars

\* Only three references with long titles, each within one letter of the next,
\* are ever submitted.
InitResubmit == InitWith(ResubmitRefs)
SpecResubmit == InitResubmit /\ [][Next]_vars

\* ------------------------------------------------------------------------
\* The hook in a page: storage, hydration, renders and effects
\* ------------------------------------------------------------------------
\* cacheDiscoveryResult, lines 443-463
CacheDiscoveryResult ==
  \E reference \in DiscoveryRefs : \E result \in DiscoveryResults :
    /\ Called([NoCall EXCEPT !.op = "cacheDiscoveryResult",
                             !.key = discoveryKeyOf[reference],
                             !.discovery = result,
                             !.committed = (discoveryKeyOf[reference] # null)])
    /\ IF discoveryKeyOf[reference] = null
         THEN UNCHANGED <<storeRef, pendingStore>>
         ELSE commitStore(cacheDiscoveryResultIn(storeRef, discoveryKeyOf[reference],
                                                 result, now))
    /\ UNCHANGED <<nextId, pool, submitted>>

\* getCachedDiscovery, lines 431-441: a read of the rendered store
GetCachedDiscovery ==
  \E reference \in DiscoveryRefs :
    /\ Called([NoCall EXCEPT !.op = "getCachedDiscovery",
                             !.key = discoveryKeyOf[reference],
                             !.discovery = getCachedDiscoveryIn(
                                store, discoveryKeyOf[reference], now)])
    /\ UNCHANGED <<storeRef, pendingStore, nextId, pool, submitted>>

\* a step of React, not of a caller
Step(name) ==
  /\ call' = [NoCall EXCEPT !.op = name]
  /\ UNCHANGED <<nextId, ops, pool, submitted, storageMode>>
  /\ UNCHANGED headerVars
  /\ UNCHANGED gateVars
  /\ UNCHANGED extractVars

Becomes(h) ==
  /\ storeRef' = h.storeRef
  /\ pendingStore' = h.pendingStore
  /\ hydratedRef' = h.hydratedRef
  /\ localStorage' = h.localStorage

\* The passive effects of the mount, flushed together in declaration order:
\* the hydration effect, then the persist effect of the first render
MountEffects ==
  /\ effects = "mount"
  /\ Becomes(persistEffect(
               hydrationEffect(
                 HookState(storeRef, pendingStore, hydratedRef, localStorage),
                 storageMode, now),
               store, storageMode))
  /\ effects' = "none"
  /\ now' = now + 1
  /\ store' = store
  /\ Step("mount")

\* React renders the queued state; the persist effect of that render is due
Render ==
  /\ effects = "none"
  /\ pendingStore.queued
  /\ store' = pendingStore.value
  /\ pendingStore' = NoPending
  /\ effects' = "update"
  /\ UNCHANGED <<storeRef, hydratedRef, localStorage, now>>
  /\ Step("render")

\* The persist effect of a re-render ([store] changed)
PersistEffect ==
  /\ effects = "update"
  /\ Becomes(persistEffect(
               HookState(storeRef, pendingStore, hydratedRef, localStorage),
               store, storageMode))
  /\ effects' = "none"
  /\ UNCHANGED <<store, now>>
  /\ Step("persist")

\* What a device holds when the page opens. An earlier session added RefA from
\* paper p1 and looked up two references, one of them DISCOVERY_CACHE_TTL_MS
\* before MountTime, the other two ticks before it.
MountTime == 10
HookRefs == {RefA, RefNear}
EarlierCache ==
  MapSet(MapSet(EmptyCache, discoveryKeyOf[RefA],
                cacheEntry(Available, MountTime - DISCOVERY_CACHE_TTL_MS)),
         discoveryKeyOf[RefRawOnly], cacheEntry(Available, MountTime - 2))
StaleCache ==
  MapSet(EmptyCache, discoveryKeyOf[RefA],
         cacheEntry(Available, MountTime - DISCOVERY_CACHE_TTL_MS))
EarlierStore ==
  [addReferencesTo(createEmptyStore(1), 1, "p1", PaperLabel("p1"), <<RefA>>, 2).store
     EXCEPT !.discovery_cache = EarlierCache]
ClearedStore == [clearWorkspaceIn(EarlierStore, 3) EXCEPT !.discovery_cache = StaleCache]
\* tagged version 2 but without a discovery cache
UncachedStore ==
  [version |-> STORE_VERSION, active_workspace_id |-> DEFAULT_WORKSPACE_ID,
   workspaces |-> EarlierStore.workspaces, entries |-> EarlierStore.entries,
   updated_at |-> 2]
LegacyWorkspace == [entries |-> EarlierStore.entries, updated_at |-> 2]
LegacyWithoutEntries == [saved |-> 2]
\* a record an earlier session left with links that lead nowhere: the entry of
\* RefA in conflict without back-reference, the entry of RefNear in conflict
\* with an entry that is in another workspace
DanglingEntries ==
  addReferencesTo(EarlierStore, 2, "p2", PaperLabel("p2"), <<RefNear>>, 3).store.entries
DanglingStore ==
  [EarlierStore EXCEPT
     !.entries = <<[DanglingEntries[1] EXCEPT !.dedup_status = "conflict"],
                   [DanglingEntries[2] EXCEPT !.conflict_with = 3],
                   [DanglingEntries[1] EXCEPT !.id = 3, !.workspace_id = "archive"]>>,
     !.updated_at = 3]

Devices ==
  [ fresh      |-> [storage |-> EmptyStorage, mode |-> "ok"],
    returning  |-> [storage |-> StorageWith(JSONstringify(EarlierStore),
                                            JSONstringify(LegacyWorkspace)),
                    mode |-> "ok"],
    cleared    |-> [storage |-> StorageWith(JSONstringify(ClearedStore), Absent),
                    mode |-> "ok"],
    garbled    |-> [storage |-> StorageWith(Garbled, JSONstringify(LegacyWorkspace)),
                    mode |-> "ok"],
    uncached   |-> [storage |-> StorageWith(JSONstringify(UncachedStore), Garbled),
                    mode |-> "ok"],
    bare       |-> [storage |-> StorageWith(Absent, JSONstringify(LegacyWithoutEntries)),
                    mode |-> "ok"],
    legacyFull |-> [storage |-> StorageWith(Absent, JSONstringify(LegacyWorkspace)),
                    mode |-> "full"],
    full       |-> [storage |-> StorageWith(JSONstringify(EarlierStore), Absent),
                    mode |-> "full"],
    disabled   |-> [storage |-> StorageWith(JSONstringify(EarlierStore),
                                            JSONstringify(LegacyWorkspace)),
                    mode |-> "disabled"],
    dangling   |-> [storage |-> StorageWith(JSONstringify(DanglingStore), Absent),
                    mode |-> "ok"] ]

InitHook ==
  \E device \in DOMAIN Devices :
    /\ FirstRender(MountTime, Devices[device].storage, Devices[device].mode)
    /\ HeaderMounted(EXTRACT_PATH)
    /\ GateMounted(FALSE)
    /\ ExtractMounted
    /\ nextId = IF device = "dangling" THEN 4 ELSE 2
    /\ ops = 0
    /\ call = NoCall
    /\ pool = HookRefs
    /\ submitted = {}

NextHook ==
  \/ ops < MaxHookOps /\ AddReferences
  \/ ops < MaxHookOps /\ ResolveConflict
  \/ ops < MaxHookOps /\ ClearWorkspace
  \/ ops < MaxHookOps /\ UpdateEntryBibtex
  \/ ops < MaxHookOps /\ CacheDiscoveryResult
  \/ ops < MaxHookOps /\ GetCachedDiscovery
  \/ MountEffects
  \/ Render
  \/ PersistEffect

SpecHook == InitHook /\ [][NextHook]_vars

\* React flushes the passive effects of a commit and renders a queued state
SpecHookLive ==
  /\ SpecHook
  /\ WF_vars(MountEffects)
  /\ WF_vars(Render)
  /\ WF_vars(PersistEffect)

\* ------------------------------------------------------------------------
\* The header of a page: clicks on the tabs, the navigation timer, the router
\* ------------------------------------------------------------------------
\* what no step of the header touches
HeaderFrame ==
  /\ UNCHANGED <<storeRef, now, nextId, ops, call, pool, submitted,
                 store, pendingStore, hydratedRef, effects, localStorage, storageMode>>
  /\ UNCHANGED gateVars
  /\ UNCHANGED extractVars

\* a click on the tab of `target`: NavTabs onClick, lines 45 and 58
ClickTab ==
  \E target \in Views :
    /\ Len(clicked) < MaxClicks
    /\ clicked' = Append(clicked, target)
    /\ pendingView' = handleNavigate(HeaderState(pendingView, timerRef, timers),
                         currentViewOf(pathname), target, Len(clicked) + 1).pendingView
    /\ timerRef' = handleNavigate(HeaderState(pendingView, timerRef, timers),
                      currentViewOf(pathname), target, Len(clicked) + 1).timerRef
    /\ timers' = handleNavigate(HeaderState(pendingView, timerRef, timers),
                    currentViewOf(pathname), target, Len(clicked) + 1).timers
    /\ UNCHANGED <<pathname, pushes>>
    /\ HeaderFrame

\* NAV_ANIMATION_MS after it was set a timer fires: lines 137-140
TimerFires ==
  \E t \in timers :
    /\ pushes' = Append(pushes, pathOf(t.target))
    /\ timerRef' = NoTimer
    /\ timers' = timers \ {t}
    /\ UNCHANGED <<pathname, pendingView, clicked>>
    /\ HeaderFrame

\* The router shows the page pushed last. The header of the page left
\* unmounts, its cleanup clears the timer it holds (lines 105-111), and the
\* header of the new page mounts.
RouteChanges ==
  /\ pushes # <<>>
  /\ pushes[Len(pushes)] # pathname
  /\ pathname' = pushes[Len(pushes)]
  /\ timers' = clearTimeout(timers, timerRef)
  /\ timerRef' = NoTimer
  /\ pendingView' = NoView
  /\ UNCHANGED <<pushes, clicked>>
  /\ HeaderFrame

InitHeader ==
  \E path \in {EXTRACT_PATH, WORKSPACE_PATH} :
    /\ HeaderMounted(path)
    /\ GateMounted(FALSE)
    /\ ExtractMounted
    /\ FirstRender(0, EmptyStorage, "ok")
    /\ nextId = 1
    /\ ops = 0
    /\ call = NoCall
    /\ pool = {}
    /\ submitted = {}

NextHeader ==
  \/ ClickTab
  \/ TimerFires
  \/ RouteChanges

SpecHeader == InitHeader /\ [][NextHeader]_vars

\* ------------------------------------------------------------------------
\* The password gate: its mount effect, connectToServer, handleSubmit
\* ------------------------------------------------------------------------
\* what no step of the gate touches
GateFrame ==
  /\ UNCHANGED <<storeRef, now, nextId, ops, call, pool, submitted,
                 store, pendingStore, hydratedRef, effects, localStorage, storageMode>>
  /\ UNCHANGED headerVars
  /\ UNCHANGED extractVars

\* connectToServer up to its first await, lines 34-53
StartConnecting ==
  /\ cancelledRef' = FALSE
  /\ status' = "connecting"
  /\ retriesRef' = 0
  /\ connecting' = "health"

\* the mount effect, lines 90-103
GateMountEffect ==
  /\ connecting = "mount"
  /\ IF authFlag
       THEN /\ status' = "unlocked"
            /\ connecting' = "idle"
            /\ UNCHANGED <<retriesRef, cancelledRef>>
       ELSE StartConnecting
  /\ UNCHANGED <<authFlag, submitting, fading, authAnswer, verifyAnswer>>
  /\ GateFrame

\* checkServerHealth settles, lines 53-82: attempt() gives response.ok, or
\* false when the fetch rejects
HealthAnswers ==
  \E ok \in BOOLEAN :
    /\ connecting = "health"
    /\ IF cancelledRef
         THEN /\ connecting' = "idle"
              /\ UNCHANGED <<status, retriesRef>>
         ELSE IF ok
           THEN /\ status' = IF authFlag THEN "unlocked" ELSE status
                /\ connecting' = IF authFlag THEN "idle" ELSE "auth"
                /\ UNCHANGED retriesRef
           ELSE /\ retriesRef' = retriesRef + 1
                /\ connecting' = IF retriesRef + 1 < MAX_HEALTH_RETRIES
                                   THEN "wait" ELSE "idle"
                /\ status' = IF retriesRef + 1 < MAX_HEALTH_RETRIES
                               THEN status ELSE "unreachable"
    /\ UNCHANGED <<authFlag, cancelledRef, submitting, fading, authAnswer, verifyAnswer>>
    /\ GateFrame

\* the retry interval elapses, lines 80 and 50-53
RetryIntervalElapses ==
  /\ connecting = "wait"
  /\ connecting' = IF cancelledRef THEN "idle" ELSE "health"
  /\ UNCHANGED <<status, authFlag, retriesRef, cancelledRef, submitting, fading,
                 authAnswer, verifyAnswer>>
  /\ GateFrame

\* checkAuthRequired settles, lines 66-75
AuthStatusAnswers ==
  \E answer \in Answers :
    /\ connecting = "auth"
    /\ authAnswer' = answer
    /\ connecting' = "idle"
    /\ status' = IF cancelledRef THEN status ELSE statusAfterAuth(asBoolean(answer))
    /\ UNCHANGED <<authFlag, retriesRef, cancelledRef, submitting, fading, verifyAnswer>>
    /\ GateFrame

\* the Retry button of the unreachable screen, line 171
Retry ==
  /\ status = "unreachable"
  /\ connecting = "idle"
  /\ StartConnecting
  /\ UNCHANGED <<authFlag, submitting, fading, authAnswer, verifyAnswer>>
  /\ GateFrame

\* the page goes away while connectToServer runs: the cleanup of the mount
\* effect, lines 100-102
GateUnmounts ==
  /\ connecting \in {"health", "wait", "auth"}
  /\ ~cancelledRef
  /\ cancelledRef' = TRUE
  /\ UNCHANGED <<status, authFlag, retriesRef, connecting, submitting, fading,
                 authAnswer, verifyAnswer>>
  /\ GateFrame

\* the form is submitted with a password that is not blank, lines 105-114
Submit ==
  /\ status \in {"locked", "fading"}
  /\ ~submitting
  /\ submitting' = TRUE
  /\ UNCHANGED <<status, authFlag, retriesRef, cancelledRef, connecting, fading,
                 authAnswer, verifyAnswer>>
  /\ GateFrame

\* verifyPassword settles, lines 114-126
VerifyAnswers ==
  \E answer \in Answers :
    /\ submitting
    /\ verifyAnswer' = answer
    /\ submitting' = FALSE
    /\ IF ~asBoolean(answer).threw /\ asBoolean(answer).value
         THEN /\ authFlag' = TRUE
              /\ status' = "fading"
              /\ fading' = TRUE
         ELSE UNCHANGED <<authFlag, status, fading>>
    /\ UNCHANGED <<retriesRef, cancelledRef, connecting, authAnswer>>
    /\ GateFrame

\* the timer set at line 118 fires
FadeEnds ==
  /\ fading
  /\ fading' = FALSE
  /\ status' = "unlocked"
  /\ UNCHANGED <<authFlag, retriesRef, cancelledRef, connecting, submitting,
                 authAnswer, verifyAnswer>>
  /\ GateFrame

InitGate ==
  \E flag \in BOOLEAN :
    /\ GateMounted(flag)
    /\ ExtractMounted
    /\ HeaderMounted(EXTRACT_PATH)
    /\ FirstRender(0, EmptyStorage, "ok")
    /\ nextId = 1
    /\ ops = 0
    /\ call = NoCall
    /\ pool = {}
    /\ submitted = {}

NextGate ==
  \/ GateMountEffect
  \/ HealthAnswers
  \/ RetryIntervalElapses
  \/ AuthStatusAnswers
  \/ Retry
  \/ GateUnmounts
  \/ Submit
  \/ VerifyAnswers
  \/ FadeEnds

SpecGate == InitGate /\ [][NextGate]_vars

\* ------------------------------------------------------------------------
\* useExtractReferences (part_006:21-91, api-client.ts:11-35)
\* ------------------------------------------------------------------------
MaxRequests == 3
Files == {"a.pdf", "b.pdf"}
Messages == {"Server error (500)"}

\* the ExtractResponse the server sends for a file
responseTo(file) ==
  [total_count |-> IF file = "a.pdf" THEN 1 ELSE 2]

UploadingState == [stage |-> "uploading", data |-> null, error |-> null]
\* abortRef.current?.abort(), lines 34 and 85
abort(reqs, controller) ==
  IF controller = NoRequest THEN reqs
  ELSE [reqs EXCEPT ![controller].aborted = TRUE]

\* a variant of the updater that does not look at the request id
advanceAnyRequest(s, current, requestId, from, to) ==
  IF s.stage = from THEN [s EXCEPT !.stage = to] ELSE s

\* the updater of a timer, lines 44-48 and 52-56
advance(s, current, requestId, from, to) ==
  IF current = requestId /\ s.stage = from THEN [s EXCEPT !.stage = to] ELSE s

\* lines 64 and 69: the request was superseded or its signal aborted
superseded(current, requestId, aborted) == current # requestId \/ aborted

\* finally, lines 77-80: a timer that has not fired is cleared
clearTimers(request) ==
  [request EXCEPT
     !.parsingTimer = IF @ = "set" THEN "cleared" ELSE @,
     !.resolvingTimer = IF @ = "set" THEN "cleared" ELSE @,
     !.settled = TRUE]

\* what no step of the extraction hook touches
ExtractFrame ==
  /\ UNCHANGED <<storeRef, now, nextId, ops, call, pool, submitted,
                 store, pendingStore, hydratedRef, effects, localStorage, storageMode>>
  /\ UNCHANGED headerVars
  /\ UNCHANGED gateVars

\* extract up to its await, lines 31-62. requests[i] is the call that took
\* the request id i; a call of reset takes an id and makes no request.
Extract ==
  \E file \in Files :
    LET requestId == requestIdRef + 1 IN
    /\ requestIdRef < MaxRequests
    /\ requestIdRef' = requestId
    /\ requests' = Append(abort(requests, abortRef),
                          [file |-> file, aborted |-> FALSE,
                           settled |-> FALSE, parsingTimer |-> "set",
                           resolvingTimer |-> "set"])
    /\ abortRef' = requestId
    /\ state' = UploadingState
    /\ event' = [kind |-> "extract", requestId |-> requestId]
    /\ ExtractFrame

\* reset, lines 83-88
Reset ==
  /\ requestIdRef < MaxRequests
  /\ requestIdRef' = requestIdRef + 1
  /\ requests' = Append(abort(requests, abortRef),
                        [file |-> "", aborted |-> FALSE,
                         settled |-> TRUE, parsingTimer |-> "cleared",
                         resolvingTimer |-> "cleared"])
  /\ abortRef' = NoRequest
  /\ state' = IdleState
  /\ event' = [kind |-> "reset", requestId |-> requestIdRef + 1]
  /\ ExtractFrame

\* the 800 ms timer of a request fires, lines 43-49; the timers of earlier
\* requests with the same delay have fired or were cleared before
ParsingTimerFires ==
  \E requestId \in 1..Len(requests) :
    /\ requests[requestId].parsingTimer = "set"
    /\ \A earlier \in 1..(requestId - 1) : requests[earlier].parsingTimer # "set"
    /\ requests' = [requests EXCEPT ![requestId].parsingTimer = "fired"]
    /\ state' = advance(state, requestIdRef, requestId, "uploading", "parsing")
    /\ event' = [kind |-> "parsingTimer", requestId |-> requestId]
    /\ UNCHANGED <<abortRef, requestIdRef>>
    /\ ExtractFrame

\* the 3000 ms timer of a request fires, lines 51-57, after its 800 ms timer
ResolvingTimerFires ==
  \E requestId \in 1..Len(requests) :
    /\ requests[requestId].resolvingTimer = "set"
    /\ requests[requestId].parsingTimer # "set"
    /\ \A earlier \in 1..(requestId - 1) : requests[earlier].resolvingTimer # "set"
    /\ requests' = [requests EXCEPT ![requestId].resolvingTimer = "fired"]
    /\ state' = advance(state, requestIdRef, requestId, "parsing", "resolving")
    /\ event' = [kind |-> "resolvingTimer", requestId |-> requestId]
    /\ UNCHANGED <<abortRef, requestIdRef>>
    /\ ExtractFrame

\* extractReferences resolves and extract resumes, lines 59-67 and 77-80;
\* the signal may have been aborted once the response was there
ResponseArrives ==
  \E requestId \in 1..Len(requests) :
    /\ ~requests[requestId].settled
    /\ state' = IF superseded(requestIdRef, requestId, requests[requestId].aborted)
                  THEN state
                  ELSE [stage |-> "done",
                        data |-> responseTo(requests[requestId].file),
                        error |-> null]
    /\ requests' = [requests EXCEPT ![requestId] = clearTimers(@)]
    /\ event' = [kind |-> "response", requestId |-> requestId]
    /\ UNCHANGED <<abortRef, requestIdRef>>
    /\ ExtractFrame

\* extractReferences rejects and extract resumes, lines 68-80: with an
\* AbortError when the signal was aborted, else with the error of a response
\* that is not ok
RequestFails ==
  \E requestId \in 1..Len(requests) : \E message \in Messages :
    /\ ~requests[requestId].settled
    /\ state' = IF superseded(requestIdRef, requestId, requests[requestId].aborted)
                  THEN state
                  ELSE [stage |-> "error", data |-> null, error |-> message]
    /\ requests' = [requests EXCEPT ![requestId] = clearTimers(@)]
    /\ event' = [kind |-> "error", requestId |-> requestId]
    /\ UNCHANGED <<abortRef, requestIdRef>>
    /\ ExtractFrame

InitExtract ==
  /\ ExtractMounted
  /\ HeaderMounted(EXTRACT_PATH)
  /\ GateMounted(FALSE)
  /\ FirstRender(0, EmptyStorage, "ok")
  /\ nextId = 1
  /\ ops = 0
  /\ call = NoCall
  /\ pool = {}
  /\ submitted = {}

NextExtract ==
  \/ Extract
  \/ Reset
  \/ ParsingTimerFires
  \/ ResolvingTimerFires
  \/ ResponseArrives
  \/ RequestFails

SpecExtract == InitExtract /\ [][NextExtract]_vars

\* ------------------------------------------------------------------------
\* Vocabulary of the properties
\* ------------------------------------------------------------------------
hasBibtex(reference) == reference.bibtex # null /\ reference.bibtex # <<>>
qualifying(references) == SelectSeq(references, hasBibtex)

hasSource(entry, paperId, index) ==
  \E k \in 1..Len(entry.source_refs) :
     /\ entry.source_refs[k].paper_id = paperId
     /\ entry.source_refs[k].source_index = index

\* the step is a call of the named operation
IsCall(op) == ops' = ops + 1 /\ call'.op = op

\* the entries of E a reference matches by normalized DOI or by exact fingerprint
exactMatches(r, E) ==
  {i \in 1..Len(E) :
     \/ Truthy(doiOf[r.doi]) /\ doiOf[E[i].reference.doi] = doiOf[r.doi]
     \/ fingerprintOf[r] # <<>> /\ fingerprintOf[E[i].reference] = fingerprintOf[r]}

\* the entries of E without a DOI, and those of them most similar to r
doiLess(E) == {i \in 1..Len(E) : ~Truthy(doiOf[E[i].reference.doi])}
simTo(r, E, i) == similarityOf[<<r.title, E[i].reference.title>>]
mostSimilar(r, E) ==
  {i \in doiLess(E) : \A j \in doiLess(E) : ~ScoreGreater(simTo(r, E, j), simTo(r, E, i))}

sumOccurrences(E) ==
  LET S[i \in 0..Len(E)] == IF i = 0 THEN 0 ELSE S[i-1] + E[i].occurrence_count
  IN  S[Len(E)]

\* ------------------------------------------------------------------------
\* C1. Every entry's occurrence_count equals the length of its source_refs.
\* The code breaks it: a conflict merge adds the two counts but unions the two
\* lists without duplicates.
\* ------------------------------------------------------------------------
C1_CountEqualsSources ==
  \A i \in 1..Len(entries) :
     entries[i].occurrence_count = Len(entries[i].source_refs)

\* ------------------------------------------------------------------------
\* C2. A call of addReferences with one qualifying reference r that matches no
\* entry by DOI or exact fingerprint, s being the greatest title similarity of r
\* to a DOI-less entry: s >= 0.95 merges r into a most similar entry and creates
\* none; 0.88 <= s < 0.95 creates a conflict entry whose back-reference is a
\* most similar entry; s < 0.88 creates a unique entry.
\* ------------------------------------------------------------------------
C2_Outcome(r, paperId, result, E, E2) ==
  LET best == mostSimilar(r, E)
      atLeast(threshold) ==
        best # {} /\ \A i \in best : ScoreAtLeast(simTo(r, E, i), threshold)
      oldKept == \A j \in 1..Len(E) : E2[j] = E[j]
  IN  IF atLeast(AUTO_MERGE_THRESHOLD)
        THEN /\ Len(E2) = Len(E)
             /\ result = [added |-> 0, merged |-> 1, conflicts |-> 0]
             /\ \E i \in best :
                  /\ hasSource(E2[i], paperId, r.index)
                  /\ \A j \in 1..Len(E) : j # i => E2[j] = E[j]
      ELSE IF atLeast(CONFLICT_THRESHOLD)
        THEN /\ Len(E2) = Len(E) + 1
             /\ oldKept
             /\ result = [added |-> 1, merged |-> 0, conflicts |-> 1]
             /\ E2[Len(E2)].reference = r
             /\ E2[Len(E2)].dedup_status = "conflict"
             /\ E2[Len(E2)].conflict_with \in {E[i].id : i \in best}
      ELSE /\ Len(E2) = Len(E) + 1
           /\ oldKept
           /\ result = [added |-> 1, merged |-> 0, conflicts |-> 0]
           /\ E2[Len(E2)].reference = r
           /\ E2[Len(E2)].dedup_status = "unique"

C2_SimilarityBands ==
  [][(/\ IsCall("addReferences")
      /\ Len(qualifying(call'.references)) = 1
      /\ exactMatches(qualifying(call'.references)[1], entries) = {})
     => C2_Outcome(qualifying(call'.references)[1], call'.paperId, call'.result,
                   entries, entriesOf(storeRef'))]_vars

\* a conflict entry has just been created next to the entry it resembles
C2_Witness ==
  /\ call.op = "addReferences"
  /\ call.references = <<RefNear>>
  /\ call.result = [added |-> 1, merged |-> 0, conflicts |-> 1]
  /\ Len(entries) = 2
  /\ entries[1].reference = RefA

\* ------------------------------------------------------------------------
\* C3. Calls of addReferences whose references all have the same normalized DOI
\* leave exactly one entry, and its occurrence_count is the number of distinct
\* (paperId, index) pairs submitted. `submitted` holds the pairs of the
\* references that take part, those with bibtex. Checked under SpecSameDoi.
\* ------------------------------------------------------------------------
C3_SameDoiOneEntry ==
  submitted # {} =>
    /\ Len(entries) = 1
    /\ entries[1].occurrence_count = Cardinality(submitted)

\* three spellings of the DOI, from two papers, are in one entry
C3_Witness ==
  /\ Len(entries) = 1
  /\ Cardinality(submitted) >= 4
  /\ \E p \in PaperIds : {<<p, RefDoiA.index>>, <<p, RefDoiAUpper.index>>,
                          <<p, RefDoiAUrl.index>>} \subseteq submitted

\* ------------------------------------------------------------------------
\* C4. Two DOI-less references with the same normalized title, year and
\* first-author token merge: submitted in consecutive calls, the second call
\* returns added 0, merged 1; submitted in one batch, at most one entry is
\* created and at least one merge counted.
\* ------------------------------------------------------------------------
titleKeyOf ==
  [r \in AllRefs |->
     <<normalizeText(r.title), r.year, extractFirstAuthor(r.authors)>>]

sameTitleKey(r1, r2) ==
  /\ ~Truthy(doiOf[r1.doi])
  /\ ~Truthy(doiOf[r2.doi])
  /\ titleKeyOf[r1] = titleKeyOf[r2]

\* the previous call and this one each add one qualifying reference
OneAfterOne ==
  /\ IsCall("addReferences")
  /\ call.op = "addReferences"
  /\ Len(qualifying(call.references)) = 1
  /\ Len(qualifying(call'.references)) = 1

\* this call adds two qualifying references
TwoAtOnce == IsCall("addReferences") /\ Len(qualifying(call'.references)) = 2

\* as the claim states it, whatever the normalized title
C4_SameKeyMerges ==
  [][/\ (OneAfterOne /\ sameTitleKey(qualifying(call.references)[1],
                                     qualifying(call'.references)[1]))
          => call'.result = [added |-> 0, merged |-> 1, conflicts |-> 0]
     /\ (TwoAtOnce /\ sameTitleKey(qualifying(call'.references)[1],
                                   qualifying(call'.references)[2]))
          => call'.result.added <= 1 /\ call'.result.merged >= 1]_vars

\* C4, amended: the same, for references whose normalized title is not empty.
C4_SameNonEmptyKeyMerges ==
  [][/\ (/\ OneAfterOne
         /\ sameTitleKey(qualifying(call.references)[1], qualifying(call'.references)[1])
         /\ titleKeyOf[qualifying(call'.references)[1]][1] # <<>>)
          => call'.result = [added |-> 0, merged |-> 1, conflicts |-> 0]
     /\ (/\ TwoAtOnce
         /\ sameTitleKey(qualifying(call'.references)[1], qualifying(call'.references)[2])
         /\ titleKeyOf[qualifying(call'.references)[1]][1] # <<>>)
          => call'.result.added <= 1 /\ call'.result.merged >= 1]_vars

\* a title differing in case and punctuation was merged into the first one
C4_Witness ==
  /\ call.op = "addReferences"
  /\ call.references = <<RefAPunct>>
  /\ call.result = [added |-> 0, merged |-> 1, conflicts |-> 0]
  /\ Len(entries) = 1
  /\ entries[1].reference = RefA
  /\ Len(entries[1].source_refs) = 2

\* ------------------------------------------------------------------------
\* C5. An entry with a DOI is neither changed by nor made the back-reference
\* target of a call of addReferences none of whose references has that DOI,
\* whatever the title similarity.
\* ------------------------------------------------------------------------
C5_Untouched(E, E2, refs) ==
  \A i \in 1..Len(E) :
    (/\ Truthy(doiOf[E[i].reference.doi])
     /\ \A k \in 1..Len(refs) : doiOf[refs[k].doi] # doiOf[E[i].reference.doi])
    => /\ E2[i] = E[i]
       /\ \A j \in (Len(E) + 1)..Len(E2) : E2[j].conflict_with # E[i].id

C5_DoiEntryShielded ==
  [][IsCall("addReferences")
     => C5_Untouched(entries, entriesOf(storeRef'), qualifying(call'.references))]_vars

\* the same title was added without a DOI next to the entry with a DOI
C5_Witness ==
  /\ call.op = "addReferences"
  /\ call.references = <<RefA>>
  /\ Len(entries) = 2
  /\ entries[1].reference = RefDoiA
  /\ entries[2].reference = RefA
  /\ entries[1].occurrence_count = 1
  /\ entries[2].conflict_with = NoId

\* ------------------------------------------------------------------------
\* C6. Two references whose normalized DOIs are present and different are never
\* sources of the same entry. In the scenario with two DOIs every reference has
\* an index of its own, so the references an entry records are those of the
\* scenario at its source indices. The code breaks it: both merge by title into
\* an entry without a DOI.
\* ------------------------------------------------------------------------
recordedIn(entry) ==
  {r \in pool : hasBibtex(r) /\ \E p \in PaperIds : hasSource(entry, p, r.index)}

C6_DifferentDoisApart ==
  \A i \in 1..Len(entries) :
    \A r1, r2 \in recordedIn(entries[i]) :
      (Truthy(doiOf[r1.doi]) /\ Truthy(doiOf[r2.doi])) => doiOf[r1.doi] = doiOf[r2.doi]

\* ------------------------------------------------------------------------
\* C7. After addReferences returns, every reference of the batch with bibtex
\* has an entry of the active workspace whose source_refs holds its
\* (paperId, index).
\* ------------------------------------------------------------------------
C7_EveryQualifyingRecorded ==
  call.op = "addReferences" =>
    \A k \in 1..Len(call.references) :
      hasBibtex(call.references[k]) =>
        \E i \in 1..Len(entries) :
          /\ entries[i].workspace_id = storeRef.active_workspace_id
          /\ hasSource(entries[i], call.paperId, call.references[k].index)

\* one reference of the batch was merged, the other created an entry
C7_Witness ==
  /\ call.op = "addReferences"
  /\ Len(call.references) = 2
  /\ call.result = [added |-> 1, merged |-> 1, conflicts |-> 0]
  /\ \E i \in 1..Len(entries) : Len(entries[i].source_refs) >= 2

\* ------------------------------------------------------------------------
\* C8. For every call of addReferences, added + merged is the number of
\* references with bibtex, the entries grow by exactly added, and conflicts is
\* the number of entries the call created with status conflict.
\* ------------------------------------------------------------------------
C8_Counts(E, E2, refs, result) ==
  /\ result.added + result.merged = Len(refs)
  /\ Len(E2) = Len(E) + result.added
  /\ result.conflicts =
       Cardinality({j \in (Len(E) + 1)..Len(E2) : E2[j].dedup_status = "conflict"})

C8_CountsAddUp ==
  [][IsCall("addReferences")
     => C8_Counts(entries, entriesOf(storeRef'), qualifying(call'.references),
                  call'.result)]_vars

\* a batch that merged one reference and created a conflict entry for the other
C8_Witness ==
  /\ call.op = "addReferences"
  /\ call.result = [added |-> 1, merged |-> 1, conflicts |-> 1]
  /\ entries[Len(entries)].dedup_status = "conflict"

\* ------------------------------------------------------------------------
\* C9. References without bibtex take no part: the call creates entries and
\* source refs only for references with bibtex, counts only those, changes
\* nothing and returns zeros when there are none, and commits the store it
\* would commit for the batch without them.
\* ------------------------------------------------------------------------
C9_Excluded(E, E2, refs, paperId, result) ==
  /\ \A j \in (Len(E) + 1)..Len(E2) :
       \E k \in 1..Len(refs) : hasBibtex(refs[k]) /\ E2[j].reference = refs[k]
  /\ \A i \in 1..Len(E2) : \A n \in 1..Len(E2[i].source_refs) :
       (i > Len(E) \/ ~hasSource(E[i], E2[i].source_refs[n].paper_id,
                                 E2[i].source_refs[n].source_index))
       => /\ E2[i].source_refs[n].paper_id = paperId
          /\ \E k \in 1..Len(refs) :
               hasBibtex(refs[k]) /\ refs[k].index = E2[i].source_refs[n].source_index
  /\ result.added + result.merged = Len(qualifying(refs))
  /\ qualifying(refs) = <<>> => E2 = E /\ result = NoResult

C9_NoBibtexNoPart ==
  [][IsCall("addReferences")
     => /\ C9_Excluded(entries, entriesOf(storeRef'), call'.references,
                       call'.paperId, call'.result)
        /\ Len(qualifying(call'.references)) < Len(call'.references)
             => storeRef' = addReferencesTo(storeRef, nextId, call'.paperId,
                                            PaperLabel(call'.paperId),
                                            qualifying(call'.references), now).store]_vars

\* a reference without bibtex came first in the batch; the next one, of the
\* same title, was added and not merged
C9_Witness ==
  /\ call.op = "addReferences"
  /\ call.references = <<RefNoBib, RefA>>
  /\ call.result = [added |-> 1, merged |-> 0, conflicts |-> 0]
  /\ Len(entries) = 1
  /\ entries[1].reference = RefA

\* ------------------------------------------------------------------------
\* C10. keep_both on a conflict entry leaves the number of entries and the sum
\* of occurrence_count unchanged and makes the entry unique; afterwards neither
\* the entry nor its counterpart has a back-reference.
\* ------------------------------------------------------------------------
idxOf(E, entryId) == CHOOSE i \in 1..Len(E) : E[i].id = entryId

\* the step is keep_both on an entry that is in conflict
KeepBothOnConflict ==
  /\ IsCall("resolveConflict")
  /\ call'.resolution = "keep_both"
  /\ \E i \in 1..Len(entries) :
       entries[i].id = call'.entryId /\ entries[i].dedup_status = "conflict"

C10_Kept(E, E2, i) ==
  /\ Len(E2) = Len(E)
  /\ sumOccurrences(E2) = sumOccurrences(E)
  /\ E2[i].id = E[i].id
  /\ E2[i].dedup_status = "unique"
  /\ E2[i].conflict_with = NoId

hasCounterpart(E, i) == \E c \in 1..Len(E) : E[c].id = E[i].conflict_with

\* as the claim states it: the counterpart has no back-reference at all
C10_KeepBothClearsBoth ==
  [][KeepBothOnConflict
     => /\ C10_Kept(entries, entriesOf(storeRef'), idxOf(entries, call'.entryId))
        /\ hasCounterpart(entries, idxOf(entries, call'.entryId))
             => entriesOf(storeRef')[idxOf(entries,
                   entries[idxOf(entries, call'.entryId)].conflict_with)].conflict_with
                = NoId]_vars

\* C10, amended: afterwards the entry has no back-reference and its counterpart
\* has none to the entry; a counterpart that pointed elsewhere is left as it was.
C10_CounterpartLink(E, E2, i, c) ==
  /\ E2[c].conflict_with # E[i].id
  /\ E[c].conflict_with # E[i].id => E2[c] = E[c]

C10_KeepBothClearsOwnLink ==
  [][KeepBothOnConflict
     => /\ C10_Kept(entries, entriesOf(storeRef'), idxOf(entries, call'.entryId))
        /\ hasCounterpart(entries, idxOf(entries, call'.entryId))
             => C10_CounterpartLink(entries, entriesOf(storeRef'),
                  idxOf(entries, call'.entryId),
                  idxOf(entries, entries[idxOf(entries, call'.entryId)].conflict_with))]_vars

\* the third entry of a chain was kept; the second still points at the first
C10_Witness ==
  /\ call.op = "resolveConflict"
  /\ call.resolution = "keep_both"
  /\ Len(entries) = 3
  /\ call.entryId = entries[3].id
  /\ entries[3].dedup_status = "unique"
  /\ entries[3].resolved_at = now - 1
  /\ entries[2].dedup_status = "conflict"
  /\ entries[2].conflict_with = entries[1].id

\* ------------------------------------------------------------------------
\* C11. resolveConflict with merge on a conflict entry whose counterpart exists
\* removes exactly one entry, keeps the sum of occurrence_count, and leaves one
\* of the two as survivor: unique, without back-reference, its source_refs the
\* union of both originals without a repeated (paper_id, source_index).
\* ------------------------------------------------------------------------
sourcePairs(entry) ==
  {<<entry.source_refs[k].paper_id, entry.source_refs[k].source_index>> :
     k \in 1..Len(entry.source_refs)}

\* the step is merge on an entry that is in conflict and has a counterpart
MergeOnConflictPair ==
  /\ IsCall("resolveConflict")
  /\ call'.resolution = "merge"
  /\ \E i \in 1..Len(entries) :
       /\ entries[i].id = call'.entryId
       /\ entries[i].dedup_status = "conflict"
       /\ hasCounterpart(entries, i)

C11_Survivor(E, E2, i, c) ==
  /\ Len(E2) = Len(E) - 1
  /\ sumOccurrences(E2) = sumOccurrences(E)
  /\ Cardinality({j \in 1..Len(E2) : E2[j].id \in {E[i].id, E[c].id}}) = 1
  /\ \A j \in 1..Len(E2) :
       E2[j].id \in {E[i].id, E[c].id}
       => /\ E2[j].dedup_status = "unique"
          /\ E2[j].conflict_with = NoId
          /\ sourcePairs(E2[j]) = sourcePairs(E[i]) \cup sourcePairs(E[c])
          /\ Len(E2[j].source_refs) = Cardinality(sourcePairs(E2[j]))

C11_MergeAbsorbs ==
  [][MergeOnConflictPair
     => C11_Survivor(entries, entriesOf(storeRef'), idxOf(entries, call'.entryId),
          idxOf(entries, entries[idxOf(entries, call'.entryId)].conflict_with))]_vars

\* the entry of one paper and its counterpart of another were merged into one
C11_Witness ==
  /\ call.op = "resolveConflict"
  /\ call.resolution = "merge"
  /\ call.committed
  /\ Len(entries) = 1
  /\ entries[1].resolved_at = now - 1
  /\ Len(entries[1].source_refs) = 2
  /\ entries[1].occurrence_count = 2

\* ------------------------------------------------------------------------
\* C12. resolveConflict with an id that names no entry of the active
\* workspace, or an entry that is not in conflict, leaves the whole store as it
\* was and commits nothing, whichever the resolution.
\* ------------------------------------------------------------------------
namesConflict(E, current, entryId) ==
  \E i \in 1..Len(E) :
    /\ E[i].id = entryId
    /\ E[i].workspace_id = current.active_workspace_id
    /\ E[i].dedup_status = "conflict"

C12_GuardedNoOp ==
  [][(IsCall("resolveConflict") /\ ~namesConflict(storeRef.entries, storeRef, call'.entryId))
     => storeRef' = storeRef /\ ~call'.committed]_vars

\* resolveConflict was called on an entry that is unique
C12_Witness ==
  /\ call.op = "resolveConflict"
  /\ ~call.committed
  /\ \E i \in 1..Len(entries) :
       /\ entries[i].id = call.entryId
       /\ entries[i].dedup_status = "unique"
       /\ entries[i].resolved_at = -1

\* ------------------------------------------------------------------------
\* C13. Every entry in conflict has a back-reference to another entry in
\* conflict whose back-reference points back at it.
\* ------------------------------------------------------------------------
C13_ConflictsPaired ==
  \A i \in 1..Len(entries) :
    entries[i].dedup_status = "conflict"
    => \E c \in 1..Len(entries) :
         /\ c # i
         /\ entries[c].id = entries[i].conflict_with
         /\ entries[c].dedup_status = "conflict"
         /\ entries[c].conflict_with = entries[i].id

\* C13, amended: every entry in conflict has a back-reference to another entry
\* of the store; that entry need not be in conflict nor point back.
C13_ConflictsPointAtEntries ==
  \A i \in 1..Len(entries) :
    entries[i].dedup_status = "conflict"
    => \E c \in 1..Len(entries) :
         c # i /\ entries[c].id = entries[i].conflict_with

\* an entry in conflict points at an entry that is unique and points nowhere
C13_Witness ==
  \E i, c \in 1..Len(entries) :
    /\ entries[i].dedup_status = "conflict"
    /\ entries[c].id = entries[i].conflict_with
    /\ entries[c].dedup_status = "unique"
    /\ entries[c].conflict_with = NoId

\* ------------------------------------------------------------------------
\* Startup, persistence and the discovery cache
\* ------------------------------------------------------------------------
\* the mount's effects run in this step: the initial load completes
LoadCompletes == effects = "mount" /\ effects' = "none"
\* nothing is queued for a render and no effect is due
Settled == effects = "none" /\ ~pendingStore.queued

\* C14: a mutation committed before the initial load completes is not
\* discarded by it: when the load completes after a commit, the store that
\* commit queued is still the one to be rendered, and the persisted snapshot
\* is adopted only when nothing was committed before.
C14_LoadKeepsMutations ==
  [][(LoadCompletes /\ pendingStore.queued) => pendingStore' = pendingStore]_vars

\* the number of entries of the version-2 store persisted under the current
\* key, 0 when there is none
persistedEntries(storage) ==
  IF /\ storage[WORKSPACE_STORAGE_KEY].present
     /\ storage[WORKSPACE_STORAGE_KEY].parses
     /\ isStoreV2(storage[WORKSPACE_STORAGE_KEY].value)
    THEN Len(storage[WORKSPACE_STORAGE_KEY].value.entries)
    ELSE 0

\* C15: during startup the record under the current key is never replaced by
\* a store with fewer entries than were persisted: the step that runs the
\* mount's effects leaves at least as many entries in storage as it found.
C15_StartupKeepsRecord ==
  [][LoadCompletes => persistedEntries(localStorage') >= persistedEntries(localStorage)]_vars

\* the record under the current key is the in-memory store, and nothing waits
InSync ==
  /\ Settled
  /\ storeRef = store
  /\ localStorage[WORKSPACE_STORAGE_KEY] = JSONstringify(storeRef)

\* C16: once the initial load has completed, a committed mutation queues the
\* store it committed, and when writes succeed the record under the current
\* storage key eventually equals the committed in-memory store.
C16_EventuallyPersisted ==
  /\ [](call.committed => pendingStore = Queued(storeRef))
  /\ (hydratedRef /\ call.committed /\ storageMode = "ok") ~> InSync

\* a reference added after the load joined the loaded entry, and the record
\* in storage holds both
C16_Witness ==
  /\ hydratedRef
  /\ call.op = "persist"
  /\ InSync
  /\ Len(storeRef.entries) = 2
  /\ storeRef.entries[1] = EarlierStore.entries[1]

\* the persist effect of a re-render runs in this step
Persists == effects = "update" /\ effects' = "none"

\* C17: when the write of a persist effect fails (storage full or disabled),
\* memory is left exactly as a successful write leaves it: the rendered store,
\* which holds the mutation, becomes storeRef.current for later calls, nothing
\* else in memory changes, storage keeps its record and the step completes.
C17_WriteFailureHarmless ==
  [][(Persists /\ hydratedRef /\ storageMode # "ok")
       => /\ storeRef' = store
          /\ store' = store
          /\ pendingStore' = pendingStore
          /\ hydratedRef'
          /\ localStorage' = localStorage]_vars

\* on a device whose storage is full, a reference added after the load is in
\* memory next to the loaded entry while storage keeps the earlier record
C17_Witness ==
  /\ storageMode = "full"
  /\ call.op = "persist"
  /\ Len(storeRef.entries) = 2
  /\ storeRef = store
  /\ localStorage[WORKSPACE_STORAGE_KEY] = JSONstringify(EarlierStore)

\* a record under the key can be read and parses
readable(storage, mode, key) ==
  mode # "disabled" /\ storage[key].present /\ storage[key].parses
\* the entry list of a legacy record, empty when it carries none
legacyEntries(legacy) == IF "entries" \in DOMAIN legacy THEN legacy.entries ELSE <<>>

\* what the claim asks of the value `loaded` that load returns at time t
LoadsInOrder(storage, mode, t, loaded) ==
  IF /\ readable(storage, mode, WORKSPACE_STORAGE_KEY)
     /\ isStoreV2(storage[WORKSPACE_STORAGE_KEY].value)
    THEN /\ loaded.store.entries = storage[WORKSPACE_STORAGE_KEY].value.entries
         /\ loaded.store.workspaces = storage[WORKSPACE_STORAGE_KEY].value.workspaces
         /\ loaded.storage = storage
  ELSE IF readable(storage, mode, LEGACY_WORKSPACE_STORAGE_KEY)
    THEN /\ loaded.store.version = STORE_VERSION
         /\ loaded.store.workspaces = <<createDefaultWorkspaceMeta(t)>>
         /\ DOMAIN loaded.store.discovery_cache = {}
         /\ loaded.store.entries =
              legacyEntries(storage[LEGACY_WORKSPACE_STORAGE_KEY].value)
         /\ loaded.storage[WORKSPACE_STORAGE_KEY] = JSONstringify(loaded.store)
  ELSE /\ loaded.store = createEmptyStore(t)
       /\ loaded.storage = storage

\* C18: load takes the record under the current key when it parses and is a
\* version-2 store; else the record under the legacy key, made a version-2
\* store with one default workspace, an empty cache and the legacy entries,
\* and written under the current key; else an empty store; and it always
\* returns a store.
C18_LoadOrder ==
  effects = "mount" =>
    /\ loadWorkspaceFromStorage(localStorage, storageMode, now).returned
    /\ LoadsInOrder(localStorage, storageMode, now,
                    loadWorkspaceFromStorage(localStorage, storageMode, now))

\* the record under the current key is a readable version-2 store
validRecord(storage, mode) ==
  /\ readable(storage, mode, WORKSPACE_STORAGE_KEY)
  /\ isStoreV2(storage[WORKSPACE_STORAGE_KEY].value)
\* a store with the cache entries that expire at t or earlier removed
withoutExpired(record, t) ==
  [record EXCEPT !.discovery_cache =
     [k \in {x \in DOMAIN record.discovery_cache :
               record.discovery_cache[x].expires_at > t} |-> record.discovery_cache[k]]]
\* the store has something to show: an entry, a second workspace, a cache entry
holdsData(record) ==
  \/ record.entries # <<>>
  \/ Len(record.workspaces) > 1
  \/ DOMAIN record.discovery_cache # {}

\* C19 as stated: whenever the persisted record is a valid version-2 store,
\* the store the initial load hands to the hook is that record with exactly
\* its expired discovery-cache entries removed.
C19_ValidRecordAdopted ==
  [][(LoadCompletes /\ validRecord(localStorage, storageMode))
       => pendingStore' =
            Queued(withoutExpired(localStorage[WORKSPACE_STORAGE_KEY].value, now))]_vars

\* C19, amended: a valid version-2 record that, once its expired cache entries
\* are removed, still holds an entry, a second workspace or a cache entry is
\* handed to the hook as the next store to render, equal to the record without
\* those expired cache entries; a valid record that holds none of these is not
\* adopted, and the hook keeps what it had.
C19_ValidRecordWithDataAdopted ==
  [][(LoadCompletes /\ validRecord(localStorage, storageMode))
       => IF holdsData(withoutExpired(localStorage[WORKSPACE_STORAGE_KEY].value, now))
            THEN pendingStore' =
                   Queued(withoutExpired(localStorage[WORKSPACE_STORAGE_KEY].value, now))
            ELSE pendingStore' = pendingStore]_vars

\* the load found the earlier session's store: its entry and its unexpired
\* cache entry wait for the render, the expired cache entry is gone
C19_Witness ==
  /\ call.op = "mount"
  /\ pendingStore.queued
  /\ pendingStore.value.entries = EarlierStore.entries
  /\ pendingStore.value.workspaces = EarlierStore.workspaces
  /\ DOMAIN pendingStore.value.discovery_cache = {discoveryKeyOf[RefRawOnly]}

\* the cache does not hold the entry under the key
lacks(cache, key, entry) == key \in DOMAIN cache => cache[key] # entry

\* the entry persisted under the key is in none of the caches held in memory
\* after the step
GoneFromMemory(key, entry) ==
  /\ lacks(storeRef'.discovery_cache, key, entry)
  /\ lacks(store'.discovery_cache, key, entry)
  /\ pendingStore'.queued => lacks(pendingStore'.value.discovery_cache, key, entry)

\* C20: after the load of a store holding a discovery-cache entry whose
\* expires_at is not later than the load time, that entry is in no in-memory
\* cache; and a getCachedDiscovery that returns a result returns an entry
\* that had not expired when it was called, so for the reference of the
\* pruned entry it returns none until cacheDiscoveryResult makes a new entry.
C20_ExpiredEntryGone ==
  /\ [][(LoadCompletes /\ validRecord(localStorage, storageMode))
          => \A key \in DOMAIN localStorage[WORKSPACE_STORAGE_KEY].value.discovery_cache :
               localStorage[WORKSPACE_STORAGE_KEY].value.discovery_cache[key].expires_at <= now
                 => GoneFromMemory(key,
                      localStorage[WORKSPACE_STORAGE_KEY].value.discovery_cache[key])]_vars
  /\ []((call.op = "getCachedDiscovery" /\ call.discovery # NoDiscovery)
          => /\ call.key \in DOMAIN store.discovery_cache
             /\ store.discovery_cache[call.key].result = call.discovery
             /\ store.discovery_cache[call.key].expires_at > now - 1)

\* the earlier session's store is rendered without its expired cache entry,
\* and getCachedDiscovery for that entry's reference has returned none
C20_Witness ==
  /\ hydratedRef
  /\ call.op = "getCachedDiscovery"
  /\ call.key = discoveryKeyOf[RefA]
  /\ call.discovery = NoDiscovery
  /\ store.entries = EarlierStore.entries
  /\ DOMAIN store.discovery_cache = {discoveryKeyOf[RefRawOnly]}

\* ------------------------------------------------------------------------
\* Reads of the discovery cache
\* ------------------------------------------------------------------------
\* the time at which the call that `call` records read the clock
calledAt == now - 1

\* C21: while the latest committed store holds, under a discovery
\* fingerprint, the entry a cacheDiscoveryResult made at time t, a
\* getCachedDiscovery for that fingerprint returns the entry's result at every
\* time before t + DISCOVERY_CACHE_TTL_MS and none from then on.
C21_FreshUntilExpiry ==
  (/\ call.op = "getCachedDiscovery"
   /\ call.key # null
   /\ call.key \in DOMAIN storeRef.discovery_cache)
    => call.discovery =
         IF calledAt < storeRef.discovery_cache[call.key].checked_at + DISCOVERY_CACHE_TTL_MS
           THEN storeRef.discovery_cache[call.key].result
           ELSE NoDiscovery


\* C22: a getCachedDiscovery issued right after a cacheDiscoveryResult for the
\* same fingerprint has committed, with no render in between and before the
\* entry expires, returns the result just cached.
C22_ReadsLatestCommit ==
  [][(/\ call.op = "cacheDiscoveryResult"
      /\ call.committed
      /\ call'.op = "getCachedDiscovery"
      /\ call'.key = call.key)
       => call'.discovery = call.discovery]_vars

\* ------------------------------------------------------------------------
\* Navigation from the header
\* ------------------------------------------------------------------------
\* the tab clicked last, NoView before the first click
lastClick == IF clicked = <<>> THEN NoView ELSE clicked[Len(clicked)]

\* C23: a click on the current view's tab cancels the pending navigation, so
\* that router.push is not called for it; at most one navigation timer is
\* pending at any time; and every router.push is made with the path of the
\* tab clicked last.
C23_Navigation ==
  /\ [](Cardinality(timers) <= 1)
  /\ [](lastClick = currentViewOf(pathname) => timers = {})
  /\ [][pushes' # pushes
          => /\ lastClick # NoView
             /\ pushes' = Append(pushes, pathOf(lastClick))]_vars

\* on the extract page the user clicked Workspace and then Extract: no timer
\* is left and nothing was pushed
C23_Witness ==
  /\ pathname = EXTRACT_PATH
  /\ clicked = <<"workspace", "extract">>
  /\ timers = {}
  /\ pushes = <<>>

\* ------------------------------------------------------------------------
\* The password gate
\* ------------------------------------------------------------------------
\* C24: the gate fails closed. Its status is unlocked only if the local
\* authenticated flag is set (which a verified password sets) or the server
\* answered that no password is required; a request for the auth status that
\* ends in an error, whether an error response or no response, leaves the
\* gate locked; and a failed health check never sets unlocked.
C24_FailsClosed ==
  /\ [](status = "unlocked" => (authFlag \/ authAnswer = "false"))
  /\ [][(connecting = "auth" /\ connecting' = "idle" /\ ~cancelledRef
           /\ authAnswer' \in {"httpError", "networkError"})
          => status' = "locked"]_vars
  /\ [][retriesRef' > retriesRef => status' # "unlocked"]_vars


\* ------------------------------------------------------------------------
\* C25. Every entry addReferences creates with status unique has no
\* back-reference; only entries created in conflict carry one. The code breaks
\* it: a new entry takes the identifier of the most similar entry whenever the
\* best score is above zero, also when the score is below the conflict
\* threshold and the entry is created unique.
\* ------------------------------------------------------------------------
createdBy(E, E2) == {j \in 1..Len(E2) : \A i \in 1..Len(E) : E[i].id # E2[j].id}

C25_UniqueCreatedUnlinked ==
  [][IsCall("addReferences")
     => \A j \in createdBy(entries, entriesOf(storeRef')) :
          entriesOf(storeRef')[j].conflict_with # NoId
            => entriesOf(storeRef')[j].dedup_status = "conflict"]_vars

\* ------------------------------------------------------------------------
\* C26. When addReferences creates a conflict entry pointing at a best-match
\* candidate, the call leaves the candidate as it was: status, back-reference,
\* source_refs, occurrence_count and timestamps are the same before and after.
\* As stated it fails: another reference of the same batch may merge into the
\* candidate before the conflict entry is created.
\* ------------------------------------------------------------------------
conflictsCreated(E, E2) == {j \in createdBy(E, E2) : E2[j].dedup_status = "conflict"}
candidateOf(E2, j) == CHOOSE c \in 1..Len(E2) : E2[c].id = E2[j].conflict_with

C26_CandidateUntouched ==
  [][IsCall("addReferences")
     => \A j \in conflictsCreated(entries, entriesOf(storeRef')) :
          candidateOf(entriesOf(storeRef'), j) <= Len(entries)
          => entriesOf(storeRef')[candidateOf(entriesOf(storeRef'), j)]
               = entries[candidateOf(entriesOf(storeRef'), j)]]_vars

\* what a merge of a reference of the call may change of an entry
sameButSources(e, e2) ==
  e2 = [e EXCEPT !.source_refs = e2.source_refs,
                 !.occurrence_count = e2.occurrence_count,
                 !.updated_at = e2.updated_at]

gainedSource(e, e2, paperId, references) ==
  \E k \in 1..Len(references) :
     /\ hasSource(e2, paperId, references[k].index)
     /\ ~hasSource(e, paperId, references[k].index)

\* C26, amended: creating the conflict entry changes nothing of the candidate.
\* A candidate that existed before the call keeps its status, back-reference,
\* reference, fingerprint and creation time, and changes at all only when a
\* reference of the same call was merged into it, which adds a source; a
\* candidate created by the same call is unique or in conflict as it was
\* created, with sources of this call only.
C26_CandidateUntouchedByCreation ==
  [][IsCall("addReferences")
     => \A j \in conflictsCreated(entries, entriesOf(storeRef')) :
          LET E2 == entriesOf(storeRef')
              c == candidateOf(E2, j)
          IN  IF c <= Len(entries)
                THEN /\ sameButSources(entries[c], E2[c])
                     /\ E2[c] # entries[c]
                          => /\ call'.result.merged > 0
                             /\ gainedSource(entries[c], E2[c], call'.paperId,
                                             call'.references)
                ELSE /\ E2[c].created_at = E2[j].created_at
                     /\ E2[c].conflict_with # E2[j].id
                     /\ \A k \in 1..Len(E2[c].source_refs) :
                          E2[c].source_refs[k].paper_id = call'.paperId]_vars

\* a reference has just been put in conflict with an entry of an earlier call
\* into which the same call merged another reference
C26_Witness ==
  /\ call.op = "addReferences"
  /\ call.result = [added |-> 1, merged |-> 1, conflicts |-> 1]
  /\ \E j, c \in 1..Len(entries) :
       /\ entries[j].dedup_status = "conflict"
       /\ entries[j].created_at = storeRef.updated_at
       /\ entries[c].id = entries[j].conflict_with
       /\ entries[c].created_at < entries[j].created_at
       /\ entries[c].updated_at = entries[j].created_at
       /\ entries[c].dedup_status = "unique"


\* ------------------------------------------------------------------------
\* C27. In every state reachable from an empty store, every back-reference
\* that is not null names an entry of the store; and after a merge has deleted
\* the loser, every other entry whose back-reference named the loser has no
\* back-reference and is unique.
\* ------------------------------------------------------------------------
deletedBy(E, E2) == {E[i].id : i \in 1..Len(E)} \ {E2[j].id : j \in 1..Len(E2)}

C27_BackReferencesLive ==
  /\ [](\A i \in 1..Len(storeRef.entries) :
          storeRef.entries[i].conflict_with # NoId
          => \E c \in 1..Len(storeRef.entries) :
               storeRef.entries[c].id = storeRef.entries[i].conflict_with)
  /\ [][(IsCall("resolveConflict") /\ call'.resolution = "merge")
        => \A i \in 1..Len(entries) :
             entries[i].conflict_with \in deletedBy(entries, entriesOf(storeRef'))
             => \A j \in 1..Len(entriesOf(storeRef')) :
                  entriesOf(storeRef')[j].id = entries[i].id
                  => /\ entriesOf(storeRef')[j].conflict_with = NoId
                     /\ entriesOf(storeRef')[j].dedup_status = "unique"]_vars

\* a merge has just deleted its loser and released an entry that took no part
\* in it: the winner is resolved at the time of the call, the other entry is
\* updated at that time without being resolved
C27_Witness ==
  /\ call.op = "resolveConflict"
  /\ call.resolution = "merge"
  /\ call.committed
  /\ \E w, j \in 1..Len(entries) :
       /\ entries[w].resolved_at = storeRef.updated_at
       /\ entries[j].resolved_at # storeRef.updated_at
       /\ entries[j].updated_at = storeRef.updated_at
       /\ entries[j].created_at < storeRef.updated_at
       /\ entries[j].conflict_with = NoId
       /\ entries[j].dedup_status = "unique"


\* ------------------------------------------------------------------------
\* C28. In resolveConflict with merge and a counterpart present, the survivor
\* is the entry of higher rank, where a reference with a DOI ranks above
\* matched, matched above fuzzy and fuzzy above unmatched; on equal rank the
\* survivor is the entry named by the id. The survivor keeps its own id,
\* fingerprint and canonical reference, and the other entry is deleted.
\* ------------------------------------------------------------------------
RankOrder == <<"unmatched", "fuzzy", "matched", "doi">>
rankClass(e) == IF Truthy(e.reference.doi) THEN "doi" ELSE e.reference.match_status
outranks(a, b) ==
  \E m, n \in 1..Len(RankOrder) :
     RankOrder[m] = rankClass(a) /\ RankOrder[n] = rankClass(b) /\ m > n

C28_Survives(E, E2, s, l) ==
  /\ \A j \in 1..Len(E2) : E2[j].id # E[l].id
  /\ \E j \in 1..Len(E2) :
       /\ E2[j].id = E[s].id
       /\ E2[j].ref_fingerprint = E[s].ref_fingerprint
       /\ E2[j].reference = E[s].reference

C28_Ranked(E, E2, i, c) ==
  IF outranks(E[c], E[i]) THEN C28_Survives(E, E2, c, i) ELSE C28_Survives(E, E2, i, c)

C28_HigherRankSurvives ==
  [][MergeOnConflictPair
     => C28_Ranked(entries, entriesOf(storeRef'), idxOf(entries, call'.entryId),
          idxOf(entries, entries[idxOf(entries, call'.entryId)].conflict_with))]_vars

\* a merge between two fuzzy references of two papers has kept the one the
\* call named, the later of the two
C28_Witness ==
  /\ call.op = "resolveConflict"
  /\ call.resolution = "merge"
  /\ call.committed
  /\ Len(entries) = 1
  /\ entries[1].id = call.entryId
  /\ entries[1].reference = RefNearTie
  /\ Len(entries[1].source_refs) = 2

\* a merge has kept a reference with a DOI that no source matched over a fuzzy one
C28_WitnessDoi ==
  /\ call.op = "resolveConflict"
  /\ call.resolution = "merge"
  /\ call.committed
  /\ \E j \in 1..Len(entries) :
       /\ entries[j].id = call.entryId
       /\ entries[j].reference = RefDoiUnmatched
       /\ entries[j].resolved_at = storeRef.updated_at
       /\ Len(entries[j].source_refs) = 2


\* ------------------------------------------------------------------------
\* C29. resolveConflict with merge on a conflict entry whose back-reference is
\* null or names no entry of the active workspace behaves as keep_both: the
\* entry becomes unique without back-reference, no entry is deleted, and no
\* source_refs or occurrence_count changes. Entries of that kind come from the
\* persisted record; checked under SpecHook.
\* ------------------------------------------------------------------------
MergeOnLoneConflict ==
  /\ IsCall("resolveConflict")
  /\ call'.resolution = "merge"
  /\ \E i \in 1..Len(entries) :
       /\ entries[i].id = call'.entryId
       /\ entries[i].dedup_status = "conflict"
       /\ ~hasCounterpart(entries, i)

C29_Degraded(E, E2, entryId, activeId) ==
  /\ Len(E2) = Len(E)
  /\ \A k \in 1..Len(E) :
       IF E[k].id = entryId /\ E[k].workspace_id = activeId
         THEN /\ E2[k].dedup_status = "unique"
              /\ E2[k].conflict_with = NoId
              /\ E2[k] = [E[k] EXCEPT !.dedup_status = "unique",
                                      !.conflict_with = NoId,
                                      !.resolved_at = E2[k].resolved_at,
                                      !.updated_at = E2[k].updated_at]
         ELSE E2[k] = E[k]

C29_MergeDegrades ==
  [][MergeOnLoneConflict
     => /\ call'.committed
        /\ C29_Degraded(storeRef.entries, storeRef'.entries, call'.entryId,
                        storeRef.active_workspace_id)
        /\ storeRef' = resolveConflictIn(storeRef, call'.entryId, "keep_both", now).store]_vars

\* merge was called on the entry whose back-reference names an entry of another
\* workspace: the entry is unique, and the three entries are all there
C29_Witness ==
  /\ call.op = "resolveConflict"
  /\ call.resolution = "merge"
  /\ call.committed
  /\ Len(storeRef.entries) = 3
  /\ storeRef.entries[3].workspace_id # storeRef.active_workspace_id
  /\ \E i \in 1..Len(entries) :
       /\ entries[i].id = call.entryId
       /\ entries[i].reference = RefNear
       /\ entries[i].dedup_status = "unique"
       /\ entries[i].conflict_with = NoId
       /\ entries[i].resolved_at = storeRef.updated_at

\* merge was called on the entry in conflict whose back-reference is null
C29_WitnessNull ==
  /\ call.op = "resolveConflict"
  /\ call.resolution = "merge"
  /\ call.committed
  /\ Len(storeRef.entries) = 3
  /\ \E i \in 1..Len(entries) :
       /\ entries[i].id = call.entryId
       /\ entries[i].reference = RefA
       /\ entries[i].dedup_status = "unique"
       /\ entries[i].resolved_at = storeRef.updated_at


\* ------------------------------------------------------------------------
\* C30. A merge performed by addReferences into an existing entry changes only
\* that entry's source_refs, occurrence_count and update time: id, status,
\* fingerprint, back-reference and canonical reference stay; and when
\* (paperId, index) is already among its source_refs the entry is not changed
\* at all, while the reference is still counted as merged.
\* ------------------------------------------------------------------------
\* the entries addReferences may merge r into: the exact matches or, without
\* one, the most similar entries from the auto-merge threshold on
mergeTargets(r, E) ==
  IF exactMatches(r, E) # {} THEN exactMatches(r, E)
  ELSE {i \in mostSimilar(r, E) : ScoreAtLeast(simTo(r, E, i), AUTO_MERGE_THRESHOLD)}

C30_Merged(E, E2, i, paperId, r, t) ==
  /\ Len(E2) = Len(E)
  /\ \A j \in 1..Len(E) : j # i => E2[j] = E[j]
  /\ IF hasSource(E[i], paperId, r.index)
       THEN E2[i] = E[i]
       ELSE /\ sameButSources(E[i], E2[i])
            /\ Len(E2[i].source_refs) = Len(E[i].source_refs) + 1
            /\ SubSeq(E2[i].source_refs, 1, Len(E[i].source_refs)) = E[i].source_refs
            /\ hasSource(E2[i], paperId, r.index)
            /\ E2[i].occurrence_count = E[i].occurrence_count + 1
            /\ E2[i].updated_at = t

C30_MergeFrame ==
  [][IsCall("addReferences")
     => /\ \A i \in 1..Len(entries) :
             sameButSources(entries[i], entriesOf(storeRef')[i])
        /\ (/\ Len(qualifying(call'.references)) = 1
            /\ mergeTargets(qualifying(call'.references)[1], entries) # {})
           => /\ call'.result = [added |-> 0, merged |-> 1, conflicts |-> 0]
              /\ \E i \in mergeTargets(qualifying(call'.references)[1], entries) :
                   C30_Merged(entries, entriesOf(storeRef'), i, call'.paperId,
                              qualifying(call'.references)[1], storeRef'.updated_at)]_vars

\* the reference of the only entry was submitted again from the same place: it
\* was counted as merged and the entry still has its one source and the time of
\* its creation
C30_Witness ==
  /\ call.op = "addReferences"
  /\ call.result = [added |-> 0, merged |-> 1, conflicts |-> 0]
  /\ Len(call.references) = 1
  /\ Len(entries) = 1
  /\ entries[1].reference = call.references[1]
  /\ hasSource(entries[1], call.paperId, call.references[1].index)
  /\ entries[1].occurrence_count = 1
  /\ entries[1].updated_at = entries[1].created_at
  /\ entries[1].created_at < storeRef.updated_at


\* ------------------------------------------------------------------------
\* C31. The fuzzy candidate addReferences chooses for an incoming reference is
\* the DOI-less entry of the active workspace with the greatest title
\* similarity to it; among candidates of equal greatest similarity the earliest
\* in entry order is chosen, and a candidate of similarity 0 is never chosen.
\* The choice shows in the entry the reference is merged into or, when an entry
\* is created, in its back-reference.
\* ------------------------------------------------------------------------
positive(score) == ScoreGreater(score, ZeroScore)

\* the earliest of the most similar DOI-less entries, NotFound when no DOI-less
\* entry has a similarity above 0
expectedCandidate(r, E) ==
  LET best == {i \in mostSimilar(r, E) : positive(simTo(r, E, i))}
  IN  IF best = {} THEN NotFound ELSE CHOOSE i \in best : \A j \in best : i <= j

C31_Chosen(E, E2, r, paperId, c) ==
  IF Len(E2) = Len(E)
    THEN /\ c # NotFound
         /\ hasSource(E2[c], paperId, r.index)
         /\ \A j \in 1..Len(E) : j # c => E2[j] = E[j]
    ELSE /\ Len(E2) = Len(E) + 1
         /\ E2[Len(E2)].reference = r
         /\ E2[Len(E2)].conflict_with = IF c = NotFound THEN NoId ELSE E[c].id

C31_BestCandidate ==
  [][(/\ IsCall("addReferences")
      /\ Len(qualifying(call'.references)) = 1
      /\ exactMatches(qualifying(call'.references)[1], entries) = {})
     => C31_Chosen(entries, entriesOf(storeRef'), qualifying(call'.references)[1],
                   call'.paperId,
                   expectedCandidate(qualifying(call'.references)[1], entries))]_vars

\* a reference equally similar to two entries is in conflict with the first
C31_Witness ==
  /\ call.op = "addReferences"
  /\ call.references = <<RefTieBoth>>
  /\ call.result = [added |-> 1, merged |-> 0, conflicts |-> 1]
  /\ Len(entries) = 3
  /\ similarityOf[<<TitleTieBoth, entries[1].reference.title>>]
       = similarityOf[<<TitleTieBoth, entries[2].reference.title>>]
  /\ entries[3].conflict_with = entries[1].id

\* a reference without title was added next to an entry: no candidate
C31_WitnessZero ==
  /\ call.op = "addReferences"
  /\ call.references = <<RefNoTitle>>
  /\ call.result = [added |-> 1, merged |-> 0, conflicts |-> 0]
  /\ Len(entries) = 2
  /\ entries[2].conflict_with = NoId


\* ------------------------------------------------------------------------
\* C32. Later references of a batch match entries created by earlier references
\* of the same batch: a batch submitted in one call of addReferences yields the
\* same entries, up to ids and timestamps, and the same summed added / merged /
\* conflicts as its references submitted one per call, in the same order, with
\* the same paperId and label.
\* ------------------------------------------------------------------------
sumResults(a, b) ==
  [added |-> a.added + b.added, merged |-> a.merged + b.merged,
   conflicts |-> a.conflicts + b.conflicts]

\* the references from the k-th on, one per call, each call one tick later; the
\* identifiers continue from one call to the next
RECURSIVE onePerCall(_, _, _, _, _, _, _, _)
afterCall(r, paperId, paperLabel, references, k, t, sum) ==
  onePerCall(r.store, r.nextId, paperId, paperLabel, references, k + 1, t + 1,
             sumResults(sum, r.result))

onePerCall(current, firstId, paperId, paperLabel, references, k, t, sum) ==
  IF k > Len(references) THEN [store |-> current, result |-> sum]
  ELSE afterCall(addReferencesTo(current, firstId, paperId, paperLabel,
                                 <<references[k]>>, t),
                 paperId, paperLabel, references, k, t, sum)

untimed(E) == [i \in 1..Len(E) |-> [E[i] EXCEPT !.created_at = 0, !.updated_at = 0]]

C32_SameAs(batchEntries, batchResult, separate) ==
  /\ untimed(batchEntries) = untimed(entriesOf(separate.store))
  /\ batchResult = separate.result

C32_BatchAsOneByOne ==
  [][IsCall("addReferences")
     => C32_SameAs(entriesOf(storeRef'), call'.result,
          onePerCall(storeRef, nextId, call'.paperId, PaperLabel(call'.paperId),
                     call'.references, 1, now,
                     [added |-> 0, merged |-> 0, conflicts |-> 0]))]_vars

\* the first call was a batch of two whose second reference was merged into the
\* entry the first one created
C32_Witness ==
  /\ ops = 1
  /\ call.op = "addReferences"
  /\ Len(call.references) = 2
  /\ call.result = [added |-> 1, merged |-> 1, conflicts |-> 0]
  /\ Len(entries) = 1
  /\ entries[1].occurrence_count = 2


\* ------------------------------------------------------------------------
\* C33. A qualifying reference with neither a DOI nor a non-empty normalized
\* title never matches an entry and is never put in conflict: each submission
\* of it creates a new unique entry whose fingerprint is synthetic and differs
\* from the fingerprint of every other entry.
\* ------------------------------------------------------------------------
bare(r) == ~Truthy(doiOf[r.doi]) /\ titleKeyOf[r][1] = <<>>

bareCreated(E, E2) == {j \in createdBy(E, E2) : bare(E2[j].reference)}
bareSubmitted(references) ==
  {k \in 1..Len(references) : hasBibtex(references[k]) /\ bare(references[k])}

C33_BareAlone(E, i) ==
  /\ E[i].dedup_status = "unique"
  /\ E[i].conflict_with = NoId
  /\ Len(E[i].source_refs) = 1
  /\ E[i].occurrence_count = 1
  /\ HasPrefix(E[i].ref_fingerprint, <<"m","a","n","u","a","l",":">>)
  /\ \A j \in 1..Len(E) :
       j # i => /\ E[j].ref_fingerprint # E[i].ref_fingerprint
                /\ E[j].conflict_with # E[i].id

C33_BareReferenceAlwaysNew ==
  /\ [](\A i \in 1..Len(entries) :
          bare(entries[i].reference) => C33_BareAlone(entries, i))
  /\ [][IsCall("addReferences")
        => Cardinality(bareCreated(entries, entriesOf(storeRef')))
             = Cardinality(bareSubmitted(call'.references))]_vars

\* the same reference without a title was submitted twice from the same place
\* of the same paper: two entries
C33_Witness ==
  /\ call.op = "addReferences"
  /\ call.references = <<RefNoTitle>>
  /\ \E i, j \in 1..Len(entries) :
       /\ i # j
       /\ entries[i].reference = RefNoTitle
       /\ entries[j].reference = RefNoTitle
       /\ entries[i].source_refs = entries[j].source_refs


\* ------------------------------------------------------------------------
\* C34. The discovery cache is decoupled from the entries: addReferences,
\* resolveConflict, clearWorkspace and updateEntryBibtex leave the discovery
\* cache as it was; cacheDiscoveryResult leaves entries and workspaces as they
\* were, and changes nothing at all for a reference without discovery
\* fingerprint; what addReferences does is the same whatever the cache holds.
\* ------------------------------------------------------------------------
EntryCalls == {"addReferences", "resolveConflict", "clearWorkspace", "updateEntryBibtex"}

withoutCache(current) == [current EXCEPT !.discovery_cache = EmptyCache]

C34_SameOutcome(committed, result, r) ==
  /\ committed.entries = r.store.entries
  /\ committed.workspaces = r.store.workspaces
  /\ result = r.result

C34_CacheDecoupled ==
  /\ [][(ops' = ops + 1 /\ call'.op \in EntryCalls)
        => storeRef'.discovery_cache = storeRef.discovery_cache]_vars
  /\ [][IsCall("cacheDiscoveryResult")
        => /\ storeRef'.entries = storeRef.entries
           /\ storeRef'.workspaces = storeRef.workspaces
           /\ call'.key = null => storeRef' = storeRef /\ pendingStore' = pendingStore]_vars
  /\ [][IsCall("addReferences")
        => C34_SameOutcome(storeRef', call'.result,
             addReferencesTo(withoutCache(storeRef), nextId, call'.paperId,
                             PaperLabel(call'.paperId), call'.references, now))]_vars

\* the persisted record was adopted and the workspace then cleared: no entry
\* is left, the lookup an earlier session cached is still there
C34_Witness ==
  /\ call.op = "clearWorkspace"
  /\ hydratedRef
  /\ Len(storeRef.entries) = 0
  /\ discoveryKeyOf[RefRawOnly] \in DOMAIN storeRef.discovery_cache
  /\ storeRef.discovery_cache[discoveryKeyOf[RefRawOnly]].checked_at < MountTime


\* ------------------------------------------------------------------------
\* C35. Entries are removed only as the loser of a conflict merge or by
\* clearWorkspace: addReferences, resolveConflict with keep_both,
\* cacheDiscoveryResult and updateEntryBibtex remove no entry, resolveConflict
\* with merge removes at most one, the entry it names or the counterpart of
\* that entry, and clearWorkspace removes every entry of the active workspace.
\* ------------------------------------------------------------------------
idsOf(E) == {E[i].id : i \in 1..Len(E)}
removedIn(current, next) == idsOf(current.entries) \ idsOf(next.entries)

C35_MergeRemoves(current, next, entryId) ==
  /\ Cardinality(removedIn(current, next)) <= 1
  /\ \A id \in removedIn(current, next) :
       \E i \in 1..Len(current.entries) :
          /\ current.entries[i].id = entryId
          /\ current.entries[i].dedup_status = "conflict"
          /\ id \in {entryId, current.entries[i].conflict_with}

C35_RemovedOnlyByMergeOrClear ==
  [][ops' = ops + 1
     => IF call'.op = "clearWorkspace"
          THEN entriesOf(storeRef') = <<>>
        ELSE IF call'.op = "resolveConflict" /\ call'.resolution = "merge"
          THEN C35_MergeRemoves(storeRef, storeRef', call'.entryId)
        ELSE removedIn(storeRef, storeRef') = {}]_vars

\* the entry an earlier session left and the one added in conflict with it
\* were merged: one entry is gone
C35_Witness ==
  /\ call.op = "resolveConflict"
  /\ call.resolution = "merge"
  /\ call.committed
  /\ hydratedRef
  /\ Len(storeRef.entries) = 1
  /\ storeRef.entries[1].occurrence_count = 2
  /\ storeRef.entries[1].resolved_at = storeRef.updated_at


\* ------------------------------------------------------------------------
\* C36. No update is lost between mutations: when two mutations are issued one
\* after the other with no re-render in between, the second is computed from
\* the store the first committed, and the final store reflects both. The code
\* breaks it: the persist effect of an earlier render, or of the mount, puts
\* the rendered store back into storeRef.current between the two.
\* ------------------------------------------------------------------------
Mutations ==
  {"addReferences", "resolveConflict", "clearWorkspace", "updateEntryBibtex",
   "cacheDiscoveryResult"}

\* A mutation of this session committed a store and no render has happened
\* since: the store is still queued for the next render. The stores earlier
\* sessions persisted are older than MountTime.
committedSinceRender ==
  pendingStore.queued /\ pendingStore.value.updated_at >= MountTime

\* the step is a mutation that commits
Mutates == ops' = ops + 1 /\ call'.op \in Mutations /\ call'.committed

C36_NoLostUpdate ==
  [][(Mutates /\ committedSinceRender)
     => /\ storeRef = pendingStore.value
        /\ call'.op = "cacheDiscoveryResult"
             => storeRef'.entries = pendingStore.value.entries]_vars

\* the same for a mutation that follows the previous one with no step of React
\* in between
C36_BackToBack ==
  [][(Mutates /\ committedSinceRender /\ call.op \in Mutations)
     => /\ storeRef = pendingStore.value
        /\ call'.op = "cacheDiscoveryResult"
             => storeRef'.entries = pendingStore.value.entries]_vars

\* addReferences and then cacheDiscoveryResult, nothing in between: the store
\* has the entry of the first and the cache entry of the second
C36_BothReflected ==
  /\ call.op = "cacheDiscoveryResult"
  /\ call.committed
  /\ ops = 2
  /\ Len(storeRef.entries) = 1
  /\ storeRef.entries[1].created_at = storeRef.updated_at - 1
  /\ storeRef.discovery_cache[call.key].checked_at = storeRef.updated_at


\* ------------------------------------------------------------------------
\* C37. In every state reachable from an empty store, no two entries of the
\* active workspace have canonical references with the same non-empty
\* normalized DOI, and no two have the same non-empty exact fingerprint.
\* ------------------------------------------------------------------------
C37_NoDuplicateKeys ==
  \A i, j \in 1..Len(entries) :
     i # j =>
       /\ Truthy(doiOf[entries[i].reference.doi])
            => doiOf[entries[j].reference.doi] # doiOf[entries[i].reference.doi]
       /\ fingerprintOf[entries[i].reference] # <<>>
            => fingerprintOf[entries[j].reference] # fingerprintOf[entries[i].reference]

\* two entries with different DOIs and the same title, and the reference of one
\* of them has been submitted more than once
C37_Witness ==
  \E i, j \in 1..Len(entries) :
     /\ i # j
     /\ Truthy(doiOf[entries[i].reference.doi])
     /\ Truthy(doiOf[entries[j].reference.doi])
     /\ entries[i].reference.title = entries[j].reference.title
     /\ entries[i].occurrence_count > 1


\* ------------------------------------------------------------------------
\* C38. Re-submitting a batch is idempotent: calling addReferences a second
\* time with the same paperId and the same references, each having a DOI or a
\* non-empty normalized title, creates no entry and changes no entry's
\* source_refs or occurrence_count.
\* ------------------------------------------------------------------------
\* the step calls addReferences with the arguments of the call just before it
Resubmits ==
  /\ IsCall("addReferences")
  /\ call.op = "addReferences"
  /\ call'.paperId = call.paperId
  /\ call'.references = call.references
  /\ \A k \in 1..Len(call'.references) : ~bare(call'.references[k])

C38_NothingNew(E, E2) ==
  /\ Len(E2) = Len(E)
  /\ \A i \in 1..Len(E) :
       /\ E2[i].source_refs = E[i].source_refs
       /\ E2[i].occurrence_count = E[i].occurrence_count

C38_ResubmitIdempotent ==
  [][Resubmits => C38_NothingNew(entries, entriesOf(storeRef'))]_vars

\* a batch of two has been submitted twice in a row, and the second call merged both
C38_Resubmitted ==
  /\ ops = 3
  /\ call.op = "addReferences"
  /\ call.paperId = "p2"
  /\ call.references = <<RefLonger, RefLongest>>
  /\ call.result = [added |-> 0, merged |-> 2, conflicts |-> 0]
  /\ Len(entries) = 2
  /\ entries[1].reference = RefLong
  /\ sourcePairs(entries[1]) = {<<"p1", 1>>, <<"p2", 1>>}
  /\ sourcePairs(entries[2]) = {<<"p2", 2>>, <<"p2", 1>>}


\* ------------------------------------------------------------------------
\* C39. In useExtractReferences, the response or error of a request that has
\* been superseded by a later extract() or by reset() never changes the state,
\* and its timers never advance the stage: only the most recent request can
\* move the stage to parsing, resolving, done or error, and after reset() the
\* stage stays idle until the next extract().
\* ------------------------------------------------------------------------
RequestEvents == {"parsingTimer", "resolvingTimer", "response", "error"}
AsyncStages == {"parsing", "resolving", "done", "error"}

\* the step resumes a request or fires one of its timers
OfRequest == event' # event /\ event'.kind \in RequestEvents

C39_LatestRequestOnly ==
  [][/\ (OfRequest /\ event'.requestId # requestIdRef) => state' = state
     /\ (state'.stage \in AsyncStages /\ state' # state)
          => /\ OfRequest
             /\ event'.requestId = requestIdRef
             /\ abortRef = requestIdRef
     /\ (state.stage = "idle" /\ state'.stage # "idle")
          => event'.kind = "extract"]_vars

\* the response of a request arrived after a later extract() replaced it, and
\* the later request is still uploading
C39_Witness ==
  /\ event.kind = "response"
  /\ event.requestId < requestIdRef
  /\ abortRef = requestIdRef
  /\ state = UploadingState

\* the 800 ms timer of a request fired after reset(), and the stage is idle
C39_WitnessReset ==
  /\ event.kind = "parsingTimer"
  /\ abortRef = NoRequest
  /\ requestIdRef > event.requestId
  /\ state = IdleState

\* the latest request was answered and its data is shown
C39_WitnessDone ==
  /\ event.kind = "response"
  /\ event.requestId = requestIdRef
  /\ requestIdRef > 1
  /\ state.stage = "done"
  /\ state.data = responseTo(requests[requestIdRef].file)
====
